---- MODULE Spec2Model ----
(***************************************************************************)
(* Model of the jiracsv analysis and check engine:                         *)
(*   jira.IssueCollection (FilterByFunction, AnyImpediment, Progress,      *)
(*   StoryPointsProgress), analysis.AnalyzeIssue, the analysis that        *)
(*   writeIssues hands to analysis.NewCheckResult, NewCheckResult and the  *)
(*   CheckResult accumulator (SetReady, SetStatus, AddMessage).            *)
(*                                                                         *)
(* Issues are heap objects referenced by pointer: a pointer is an index    *)
(* into `issues` (0 is the issue under evaluation, 1..n its linked         *)
(* issues).  A Go slice is a header [arr, len, cap] over a backing array   *)
(* held in `mem`; append writes in place while len < cap and allocates a   *)
(* new array otherwise, so aliasing between collections is visible.        *)
(***************************************************************************)
EXTENDS Integers, Sequences, FiniteSets, Bags, TLC

VARIABLES
    issues,     \* heap of Issue structs: [0..n -> Issue]; 0 is the evaluated issue
    component,  \* the *string component argument: [nil, v]
    mem,        \* backing arrays of the slices reachable from the issue graph
    a,          \* the IssueAnalysis of the current evaluation
    r,          \* the CheckResult accumulator
    pc,         \* position of the caller (writeIssues) in the evaluation
    k,          \* index of the next rule in `order` (stepwise evaluation)
    order,      \* the sequence of rule evaluators being run
    run,        \* how many times the issue has been evaluated so far
    prev,       \* what the previous evaluation of the issue gave and where it
                \* ended, the headings the issue was listed under before, and
                \* the memory the run started with
    call,       \* last mutator called on the accumulator: [op, arg]
    p,          \* last Progress value produced
    cc,         \* main's ComponentsCollection: Items, Orphans, index and the
                \* ComponentIssues objects they point to
    jira,       \* what the Jira server answers to each search
    profile,    \* the search profile of the configuration: Components.Include
                \* and Components.Exclude
    fe,         \* the activation of Client.FindEpics: position, locals, results
    ch,         \* the channel FindEpics makes: [made, closed]
    goroutines  \* the goroutines FindEpics started, one per Epic

vars == <<issues, component, mem, a, r, pc, k, order, run, prev, call, p,
          cc, jira, profile, fe, ch, goroutines>>

----------------------------------------------------------------------------
(* Bounds of the model *)

\* linked-issue slots of the evaluated issue
MaxLinked == 2
\* fields of the input graph that differ from the baseline graph
MaxDeviations == 2
\* fields that differ from the baseline under the stepwise specification
StepDeviations == 1
\* rotations of the rule list tried as alternative evaluation orders
MaxRotations == 2
\* calls made on a free-standing accumulator
MaxCalls == 4
\* issues in a collection handed to Progress / StoryPointsProgress
MaxColl == 2

----------------------------------------------------------------------------
(* Program constants *)

CheckStatusNone == 0
CheckStatusGreen == 1
CheckStatusYellow == 2
CheckStatusRed == 3

NoStoryPoints == -1

IssueTypeEpic == "Epic"
IssueTypeStory == "Story"
IssueTypeTask == "Task"
IssueTypeBug == "Bug"

IssueStatusDone == "Done"
IssueStatusObsolete == "Obsolete"
IssueStatusInProgress == "In Progress"
IssueStatusFeatureComplete == "Feature Complete"
IssueStatusCodeReview == "Code Review"
IssueStatusQEReview == "QE Review"

IssueResolutionDone == "Done"
IssuePriorityUnprioritized == "Unprioritized"

----------------------------------------------------------------------------
(* Strings that the code inspects by prefix are sequences of characters *)

HasPrefix(s, prefix) ==
    /\ Len(s) >= Len(prefix)
    /\ SubSeq(s, 1, Len(prefix)) = prefix

StrAlongside == <<"A","l","o","n","g","s","i","d","e">>
StrGreen == <<"G","R","E","E","N",":">>
StrYellow == <<"Y","E","L","L","O","W",":">>
StrRed == <<"R","E","D",":">>

\* nullable references: pointers to structs of the jira client library
NilRef == [nil |-> TRUE, v |-> ""]
Ref(x) == [nil |-> FALSE, v |-> x]

\* nullable *time.Time
NilTime == [nil |-> TRUE, t |-> 0]
TimeAt(t) == [nil |-> FALSE, t |-> t]

----------------------------------------------------------------------------
(* Slices and backing arrays *)

\* make([]*Issue, 0): a zero-length slice with no backing array
NewIssueCollection0 == [arr |-> 0, len |-> 0, cap |-> 0]

\* the pointers a slice header denotes
Elems(m, s) == IF s.len = 0 THEN <<>> ELSE SubSeq(m[s.arr], 1, s.len)

\* capacity of the array allocated when appending one element to a full slice
GrowCap(cap) == IF cap = 0 THEN 1 ELSE 2 * cap

\* Go's append(s, x): returns the new memory and the new slice header
append(m, s, x) ==
    IF s.len < s.cap
    THEN [mem |-> [m EXCEPT ![s.arr][s.len + 1] = x],
          s   |-> [s EXCEPT !.len = s.len + 1]]
    ELSE LET newcap == GrowCap(s.cap)
             newarr == [j \in 1..newcap |->
                          IF j <= s.len THEN m[s.arr][j]
                          ELSE IF j = s.len + 1 THEN x ELSE -1]
         IN [mem |-> Append(m, newarr),
             s   |-> [arr |-> Len(m) + 1, len |-> s.len + 1, cap |-> newcap]]

----------------------------------------------------------------------------
(* jira.Issue methods *)

\* IsActive returns true if the issue is currently worked on
IsActive(i) ==
    CASE i.Status = IssueStatusInProgress -> TRUE
      [] i.Status = IssueStatusFeatureComplete -> TRUE
      [] i.Status = IssueStatusCodeReview -> TRUE
      [] i.Status = IssueStatusQEReview -> TRUE
      [] OTHER -> FALSE

IsType(i, tp) == i.Type = tp

InStatus(i, status) == i.Status = status

IsResolved(i) == ~i.Resolution.nil /\ i.Resolution.v = IssueResolutionDone

IsPrioritized(i) ==
    IF ~i.Priority.nil
    THEN CASE i.Priority.v = IssuePriorityUnprioritized -> FALSE
           [] i.Priority.v = "" -> FALSE
           [] OTHER -> TRUE
    ELSE TRUE

HasStoryPoints(i) == i.StoryPoints > NoStoryPoints

HasComponent(i, c) == \E j \in 1..Len(i.Components) : i.Components[j] = c

Ready(i) ==
    /\ i.Readiness.Development /\ i.Readiness.Product /\ i.Readiness.Quality
    /\ i.Readiness.Experience /\ i.Readiness.Documentation /\ i.Readiness.Support

\* all five approvals given
IsCommitted(i) ==
    /\ i.Approvals.Development /\ i.Approvals.Product /\ i.Approvals.Quality
    /\ i.Approvals.Experience /\ i.Approvals.Documentation

----------------------------------------------------------------------------
(* jira.IssueCollection methods; a collection is a slice of issue pointers *)

\* a plausible slip: filtering in place over the receiver's backing array
FilterByFunctionInPlace(m, c, fn) ==
    LET step[j \in 0..c.len] ==
            IF j = 0 THEN [mem |-> m, s |-> [c EXCEPT !.len = 0]]
            ELSE LET before == step[j - 1]
                     i == before.mem[c.arr][j]
                 IN IF fn[i] THEN append(before.mem, before.s, i) ELSE before
    IN step[c.len]

\* FilterByFunction returns jira issues from collection that satisfy the provided function
\* (fn is given as a Boolean-valued function of the issue pointer)
FilterByFunction(m, c, fn) ==
    LET step[j \in 0..c.len] ==
            IF j = 0 THEN [mem |-> m, s |-> NewIssueCollection0]
            ELSE LET before == step[j - 1]
                     i == before.mem[c.arr][j]
                 IN IF fn[i] THEN append(before.mem, before.s, i) ELSE before
    IN step[c.len]

\* AnyImpediment returns if any of the issues has an impediment
AnyImpediment(m, c) == \E j \in 1..c.len : issues[m[c.arr][j]].Impediment

\* a plausible slip: the resolved count is taken before the Obsolete test
ProgressCountsObsolete(m, c) ==
    LET step[j \in 0..c.len] ==
            IF j = 0 THEN [Total |-> 0, Status |-> 0, Unknown |-> 0]
            ELSE LET q == step[j - 1]
                     i == issues[m[c.arr][j]]
                     q1 == IF IsResolved(i) THEN [q EXCEPT !.Status = q.Status + 1] ELSE q
                 IN IF InStatus(i, IssueStatusObsolete) THEN q1
                    ELSE [q1 EXCEPT !.Total = q1.Total + 1]
    IN step[c.len]

\* Progress returns the progress of the issues in the collection
Progress(m, c) ==
    LET step[j \in 0..c.len] ==
            IF j = 0 THEN [Total |-> 0, Status |-> 0, Unknown |-> 0]
            ELSE LET q == step[j - 1]
                     i == issues[m[c.arr][j]]
                 IN IF InStatus(i, IssueStatusObsolete) THEN q
                    ELSE LET q1 == [q EXCEPT !.Total = q.Total + 1]
                         IN IF IsResolved(i)
                            THEN [q1 EXCEPT !.Status = q1.Status + 1]
                            ELSE q1
    IN step[c.len]

\* a plausible slip: the story points are added without the HasStoryPoints test
StoryPointsProgressNoSentinel(m, c) ==
    LET step[j \in 0..c.len] ==
            IF j = 0 THEN [Total |-> 0, Status |-> 0, Unknown |-> 0]
            ELSE LET q == step[j - 1]
                     i == issues[m[c.arr][j]]
                 IN IF ~IsType(i, IssueTypeStory) \/ InStatus(i, IssueStatusObsolete) THEN q
                    ELSE LET q1 == [q EXCEPT !.Total = q.Total + i.StoryPoints]
                             q2 == IF IsResolved(i)
                                   THEN [q1 EXCEPT !.Status = q1.Status + i.StoryPoints]
                                   ELSE q1
                         IN IF HasStoryPoints(i) THEN q2
                            ELSE [q2 EXCEPT !.Unknown = q2.Unknown + 1]
    IN step[c.len]

\* a plausible slip: the issue type is not tested
StoryPointsProgressAnyType(m, c) ==
    LET step[j \in 0..c.len] ==
            IF j = 0 THEN [Total |-> 0, Status |-> 0, Unknown |-> 0]
            ELSE LET q == step[j - 1]
                     i == issues[m[c.arr][j]]
                 IN IF InStatus(i, IssueStatusObsolete) THEN q
                    ELSE IF HasStoryPoints(i)
                         THEN LET q1 == [q EXCEPT !.Total = q.Total + i.StoryPoints]
                              IN IF IsResolved(i)
                                 THEN [q1 EXCEPT !.Status = q1.Status + i.StoryPoints]
                                 ELSE q1
                         ELSE [q EXCEPT !.Unknown = q.Unknown + 1]
    IN step[c.len]

\* StoryPointsProgress returns the progress of the story points of the issues in the collection
StoryPointsProgress(m, c) ==
    LET step[j \in 0..c.len] ==
            IF j = 0 THEN [Total |-> 0, Status |-> 0, Unknown |-> 0]
            ELSE LET q == step[j - 1]
                     i == issues[m[c.arr][j]]
                 IN IF ~IsType(i, IssueTypeStory) \/ InStatus(i, IssueStatusObsolete) THEN q
                    ELSE IF HasStoryPoints(i)
                         THEN LET q1 == [q EXCEPT !.Total = q.Total + i.StoryPoints]
                              IN IF IsResolved(i)
                                 THEN [q1 EXCEPT !.Status = q1.Status + i.StoryPoints]
                                 ELSE q1
                         ELSE [q EXCEPT !.Unknown = q.Unknown + 1]
    IN step[c.len]

----------------------------------------------------------------------------
(* analysis: the comment scan, AnalyzeIssue and NewIssueAnalysis *)

\* getIssueCommentStatus as it stands in the file of AnalyzeIssue
\* (analisys.go): its prefixes end with a space
getIssueCommentStatusWithSpace(issue) ==
    LET scan[j \in 0..Len(issue.Comments)] ==
            IF j = 0 THEN [status |-> CheckStatusNone, date |-> NilTime]
            ELSE IF HasPrefix(issue.Comments[j].Body, StrGreen \o <<" ">>)
                 THEN [status |-> CheckStatusGreen, date |-> TimeAt(issue.Comments[j].Updated)]
            ELSE IF HasPrefix(issue.Comments[j].Body, StrYellow \o <<" ">>)
                 THEN [status |-> CheckStatusYellow, date |-> TimeAt(issue.Comments[j].Updated)]
            ELSE IF HasPrefix(issue.Comments[j].Body, StrRed \o <<" ">>)
                 THEN [status |-> CheckStatusRed, date |-> TimeAt(issue.Comments[j].Updated)]
            ELSE scan[j - 1]
    IN scan[Len(issue.Comments)]

\* a plausible slip: the comments are walked from the oldest one
getIssueCommentStatusOldestFirst(issue) ==
    LET n == Len(issue.Comments)
        scan[j \in 1..(n + 1)] ==
            IF j = n + 1 THEN [status |-> CheckStatusNone, date |-> NilTime]
            ELSE IF HasPrefix(issue.Comments[j].Body, StrGreen)
                 THEN [status |-> CheckStatusGreen, date |-> TimeAt(issue.Comments[j].Updated)]
            ELSE IF HasPrefix(issue.Comments[j].Body, StrYellow)
                 THEN [status |-> CheckStatusYellow, date |-> TimeAt(issue.Comments[j].Updated)]
            ELSE IF HasPrefix(issue.Comments[j].Body, StrRed)
                 THEN [status |-> CheckStatusRed, date |-> TimeAt(issue.Comments[j].Updated)]
            ELSE scan[j + 1]
    IN scan[1]

\* getIssueCommentStatus of utils.go, the one NewCheckResult's package is
\* built with.  Most recent comment first; the first recognised prefix decides.  The
\* provider (FindIssues) dereferences Fields.Comments for every issue it
\* builds, so the nil test at the top of the function never succeeds here.
getIssueCommentStatus(issue) ==
    LET scan[j \in 0..Len(issue.Comments)] ==
            IF j = 0 THEN [status |-> CheckStatusNone, date |-> NilTime]
            ELSE IF HasPrefix(issue.Comments[j].Body, StrGreen)
                 THEN [status |-> CheckStatusGreen, date |-> TimeAt(issue.Comments[j].Updated)]
            ELSE IF HasPrefix(issue.Comments[j].Body, StrYellow)
                 THEN [status |-> CheckStatusYellow, date |-> TimeAt(issue.Comments[j].Updated)]
            ELSE IF HasPrefix(issue.Comments[j].Body, StrRed)
                 THEN [status |-> CheckStatusRed, date |-> TimeAt(issue.Comments[j].Updated)]
            ELSE scan[j - 1]
    IN scan[Len(issue.Comments)]

\* allLinkedIssues: the linked issues that are not Obsolete
AllLinkedIssues(m, issue) ==
    FilterByFunction(m, issue.LinkedIssues,
        [i \in DOMAIN issues |-> ~InStatus(issues[i], IssueStatusObsolete)])

\* linkedIssues: allLinkedIssues restricted to the component, when one is given
ScopedLinkedIssues(m, all, comp) ==
    IF ~comp.nil /\ comp.v # ""
    THEN LET InScope(i) == /\ HasComponent(issues[i], comp.v)
                           /\ ~IsType(issues[i], IssueTypeEpic)
         IN FilterByFunction(m, all, [i \in DOMAIN issues |-> InScope(i)])
    ELSE [mem |-> m, s |-> all]

\* linkedActivities: the stories and tasks among linkedIssues
LinkedActivities(m, linked) ==
    LET IsActivity(i) == \/ IsType(issues[i], IssueTypeStory)
                         \/ IsType(issues[i], IssueTypeTask)
    IN FilterByFunction(m, linked, [i \in DOMAIN issues |-> IsActivity(i)])

\* the loop over allLinkedIssues that raises IssueNoComponent
IssueNoComponent(m, all) ==
    \E j \in 1..all.len : Len(issues[m[all.arr][j]].Components) = 0

\* a plausible slip: >= in place of >, so the last of equals wins
CommentScanLastWins(m, scanned, status) ==
    LET best[j \in 0..scanned.len] ==
            IF j = 0 THEN [status |-> CheckStatusNone, date |-> NilTime]
            ELSE LET sofar == best[j - 1]
                     found == status[m[scanned.arr][j]]
                 IN IF found.status >= sofar.status THEN found ELSE sofar
    IN best[scanned.len]

\* the loop over append(linkedIssues, assessment.Issue): the highest comment
\* status wins, and among equals the first one met; status is what
\* getIssueCommentStatus returns for each issue
CommentScan(m, scanned, status) ==
    LET best[j \in 0..scanned.len] ==
            IF j = 0 THEN [status |-> CheckStatusNone, date |-> NilTime]
            ELSE LET sofar == best[j - 1]
                     found == status[m[scanned.arr][j]]
                 IN IF found.status > sofar.status THEN found ELSE sofar
    IN best[scanned.len]

\* the issues of the collection that are in Done status
InStatusDone(m, c) ==
    FilterByFunction(m, c, [i \in DOMAIN issues |-> InStatus(issues[i], IssueStatusDone)])

\* StoryPoints returns the total number of story points for the issues in
\* the collection
StoryPoints(m, c) ==
    LET points[j \in 0..c.len] ==
            IF j = 0 THEN 0
            ELSE LET i == issues[m[c.arr][j]]
                 IN IF HasStoryPoints(i) THEN points[j - 1] + i.StoryPoints
                    ELSE points[j - 1]
    IN points[c.len]

\* AnalyzeIssue analyzes a Jira Epic: returns the memory it leaves and the
\* IssueAnalysis of analisys.go
AnalyzeIssue(m, ptr, comp) ==
    LET issue == issues[ptr]
        all == AllLinkedIssues(m, issue)
        linked == ScopedLinkedIssues(all.mem, all.s, comp)
        linkedIssuesDone == InStatusDone(linked.mem, linked.s)
        activities == LinkedActivities(linkedIssuesDone.mem, linked.s)
        activitiesDone == InStatusDone(activities.mem, activities.s)
        scoped == {activitiesDone.mem[linked.s.arr][j] : j \in 1..linked.s.len}
        scanned == append(activitiesDone.mem, linked.s, ptr)
        comment == CommentScan(scanned.mem, scanned.s,
                       [i \in DOMAIN issues |-> getIssueCommentStatusWithSpace(issues[i])])
    IN [mem |-> scanned.mem,
        a |-> [Issue |-> ptr,
               Component |-> comp,
               LinkedIssues |-> [Total |-> linked.s.len,
                                 Completed |-> linkedIssuesDone.s.len],
               StoryPoints |->
                   [Total |-> StoryPoints(activitiesDone.mem, activities.s),
                    Completed |-> StoryPoints(activitiesDone.mem, activitiesDone.s),
                    Complete |-> \A i \in scoped :
                                    IsType(issues[i], IssueTypeStory)
                                        => HasStoryPoints(issues[i])],
               NoActivities |-> (activities.s.len = 0),
               Impediment |-> \E i \in scoped : issues[i].Impediment,
               MixedTypes |-> \E i \in scoped : ~IsType(issues[i], IssueTypeStory),
               IssueNoComponent |-> IssueNoComponent(activitiesDone.mem, all.s),
               CommentStatus |-> comment.status,
               CommentDate |-> comment.date]]

\* issuesCompletion = scoped.Progress(): the value checkDone and writeIssues
\* read as a.IssuesCompletion
IssuesCompletion(m, linked) == Progress(m, linked)

\* pointsCompletion = scoped.StoryPointsProgress(): the value checkDone and
\* writeIssues read as a.PointsCompletion
PointsCompletion(m, linked) == StoryPointsProgress(m, linked)

\* the IssueAnalysis before NewIssueAnalysis has run
NoAnalysis ==
    [Issue |-> 0, Component |-> NilRef, NumActivities |-> 0,
     IssueNoComponent |-> FALSE,
     IssuesCompletion |-> [Total |-> 0, Status |-> 0, Unknown |-> 0],
     PointsCompletion |-> [Total |-> 0, Status |-> 0, Unknown |-> 0],
     CommentStatus |-> CheckStatusNone, CommentDate |-> NilTime]

\* NewIssueAnalysis, which writeIssues calls and whose result NewCheckResult
\* reads, as the specification (section 4.2) has it:
\*   1. allLinked: the issue's linked issues, excluding Obsolete;
\*   2. scoped: allLinked restricted to the issues carrying the component,
\*      if a component was supplied, allLinked otherwise;
\*   3. issueNoComponent: some issue of allLinked belongs to the project of
\*      the issue and has zero components;
\*   4. issuesCompletion = scoped.Progress();
\*   5. numActivities: the issues of scoped of type Story, Task or Bug;
\*   6. pointsCompletion = scoped.StoryPointsProgress();
\*   7. the comment status and date over scoped plus the issue itself, the
\*      highest severity winning and the first among equals.
\* Returns the memory it leaves and the analysis.
NewIssueAnalysis(m, ptr, comp) ==
    LET issue == issues[ptr]
        allLinked == AllLinkedIssues(m, issue)
        scoped == IF ~comp.nil
                  THEN FilterByFunction(allLinked.mem, allLinked.s,
                           [i \in DOMAIN issues |-> HasComponent(issues[i], comp.v)])
                  ELSE allLinked
        activities == FilterByFunction(scoped.mem, scoped.s,
                          [i \in DOMAIN issues |->
                              \/ IsType(issues[i], IssueTypeStory)
                              \/ IsType(issues[i], IssueTypeTask)
                              \/ IsType(issues[i], IssueTypeBug)])
        scanned == append(activities.mem, scoped.s, ptr)
        comment == CommentScan(scanned.mem, scanned.s,
                       [i \in DOMAIN issues |-> getIssueCommentStatus(issues[i])])
    IN [mem |-> scanned.mem,
        a |-> [Issue |-> ptr,
               Component |-> comp,
               NumActivities |-> activities.s.len,
               IssueNoComponent |->
                   \E j \in 1..allLinked.s.len :
                       LET i == issues[activities.mem[allLinked.s.arr][j]]
                       IN i.Project = issue.Project /\ Len(i.Components) = 0,
               IssuesCompletion |-> IssuesCompletion(activities.mem, scoped.s),
               PointsCompletion |-> PointsCompletion(activities.mem, scoped.s),
               CommentStatus |-> comment.status,
               CommentDate |-> comment.date]]

----------------------------------------------------------------------------
(* analysis.CheckResult: the accumulator and its three mutators *)

\* &CheckResult{Ready: true, Status: CheckStatusNone}
EmptyResult == [Ready |-> TRUE, Status |-> CheckStatusNone, Messages |-> <<>>]

\* a plausible slip: plain assignment
SetReadyAssign(res, ready) == [res EXCEPT !.Ready = ready]

\* SetReady sets the ready status
SetReady(res, ready) ==
    IF res.Ready /\ ~ready THEN [res EXCEPT !.Ready = FALSE] ELSE res

\* a plausible slip: plain assignment
SetStatusAssign(res, status) == [res EXCEPT !.Status = status]

\* SetStatus sets the status
SetStatus(res, status) ==
    IF status > res.Status THEN [res EXCEPT !.Status = status] ELSE res

\* a plausible slip: the message is put in front
AddMessagePrepend(res, message) == [res EXCEPT !.Messages = <<message>> \o res.Messages]

\* AddMessage adds a message
AddMessage(res, message) == [res EXCEPT !.Messages = Append(res.Messages, message)]

----------------------------------------------------------------------------
(* The rule evaluators.  Each takes st = [mem, r] (the memory and the     *)
(* accumulator) and the analysis, and returns the new st.                 *)

\* a plausible slip: the return inside the loop is missing, so every
\* fix-version that starts with Alongside adds the message
checkAlongsideEveryVersion(st, an) ==
    LET versions == issues[an.Issue].FixVersions
        seen[j \in 0..Len(versions)] ==
            IF j = 0 THEN st.r
            ELSE IF HasPrefix(versions[j], StrAlongside)
                 THEN AddMessage(seen[j - 1], "ALONGSIDE")
                 ELSE seen[j - 1]
    IN [st EXCEPT !.r = seen[Len(versions)]]

checkAlongside(st, an) ==
    LET versions == issues[an.Issue].FixVersions
    IN IF \E j \in 1..Len(versions) : HasPrefix(versions[j], StrAlongside)
       THEN [st EXCEPT !.r = AddMessage(st.r, "ALONGSIDE")]
       ELSE st

\* checkVersion verifies that there is at least one version set
checkVersion(st, an) ==
    LET versions == issues[an.Issue].FixVersions
        r1 == IF Len(versions) = 0
              THEN AddMessage(SetReady(st.r, FALSE), "NOVERSION")
              ELSE st.r
        r2 == IF Len(versions) > 1 THEN AddMessage(r1, "MULTIVERSION") ELSE r1
    IN [st EXCEPT !.r = r2]

\* a plausible slip: the message is added but the result stays ready
checkActivitiesMessageOnly(st, an) ==
    IF IsType(issues[an.Issue], IssueTypeEpic) /\ an.NumActivities = 0
    THEN [st EXCEPT !.r = AddMessage(st.r, "NOSTORIES")]
    ELSE st

\* a plausible slip: the rule asks for any linked issue in scope, whatever
\* its type
checkActivitiesAnyType(st, an) ==
    IF IsType(issues[an.Issue], IssueTypeEpic) /\ an.IssuesCompletion.Total = 0
    THEN [st EXCEPT !.r = AddMessage(SetReady(st.r, FALSE), "NOSTORIES")]
    ELSE st

\* checkActivities verifies that there is at least one story attached
checkActivities(st, an) ==
    IF IsType(issues[an.Issue], IssueTypeEpic) /\ an.NumActivities = 0
    THEN [st EXCEPT !.r = AddMessage(SetReady(st.r, FALSE), "NOSTORIES")]
    ELSE st

\* checkDescription verifies that the description is set
checkDescription(st, an) ==
    IF issues[an.Issue].Description = ""
    THEN [st EXCEPT !.r = AddMessage(SetReady(st.r, FALSE), "NODESCRIPTION")]
    ELSE st

\* checkReadiness verifies that the ready checks are set
checkReadiness(st, an) ==
    IF IsType(issues[an.Issue], IssueTypeEpic) /\ ~Ready(issues[an.Issue])
    THEN [st EXCEPT !.r = AddMessage(SetReady(st.r, FALSE), "NOTREADY")]
    ELSE st

\* a plausible slip: the missing approvals also clear ready, as the rules
\* next to it do
checkApprovalsNotReady(st, an) ==
    IF IsType(issues[an.Issue], IssueTypeEpic) /\ ~IsCommitted(issues[an.Issue])
    THEN [st EXCEPT !.r = AddMessage(SetStatus(SetReady(st.r, FALSE), CheckStatusRed),
                                     "NOACKS")]
    ELSE st

\* checkApprovals verifies that the approvals are set
checkApprovals(st, an) ==
    IF IsType(issues[an.Issue], IssueTypeEpic) /\ ~IsCommitted(issues[an.Issue])
    THEN [st EXCEPT !.r = AddMessage(SetStatus(st.r, CheckStatusRed), "NOACKS")]
    ELSE st

\* checkDeliveryOwner verifies that an owner has been assigned
checkDeliveryOwner(st, an) ==
    IF issues[an.Issue].Owner = ""
    THEN [st EXCEPT !.r = AddMessage(SetStatus(SetReady(st.r, FALSE), CheckStatusRed),
                                     "NODELIVERYOWNER")]
    ELSE st

\* a plausible slip: the mismatch raises the status like the missing assignee
checkQEAssigneeMismatchRed(st, an) ==
    IF issues[an.Issue].Planning.NoQuality
    THEN IF issues[an.Issue].QEAssignee # ""
         THEN [st EXCEPT !.r = AddMessage(SetStatus(SetReady(st.r, FALSE), CheckStatusRed),
                                          "NOQEMISMATCH")]
         ELSE st
    ELSE IF issues[an.Issue].QEAssignee = ""
         THEN [st EXCEPT !.r = AddMessage(SetStatus(SetReady(st.r, FALSE), CheckStatusRed),
                                          "NOQEASSIGNEE")]
         ELSE st

\* checkQEAssignee verifies that a QA Contact has been assigned
checkQEAssignee(st, an) ==
    IF issues[an.Issue].Planning.NoQuality
    THEN IF issues[an.Issue].QEAssignee # ""
         THEN [st EXCEPT !.r = AddMessage(SetReady(st.r, FALSE), "NOQEMISMATCH")]
         ELSE st
    ELSE IF issues[an.Issue].QEAssignee = ""
         THEN [st EXCEPT !.r = AddMessage(SetStatus(SetReady(st.r, FALSE), CheckStatusRed),
                                          "NOQEASSIGNEE")]
         ELSE st

\* checkAcceptanceCriteria verifies that the acceptance criteria are set
checkAcceptanceCriteria(st, an) ==
    IF issues[an.Issue].Acceptance = ""
    THEN [st EXCEPT !.r = AddMessage(SetStatus(SetReady(st.r, FALSE), CheckStatusRed),
                                     "NOCRITERIA")]
    ELSE st

\* checkPriority verifies that the priority is set
checkPriority(st, an) ==
    IF ~IsPrioritized(issues[an.Issue])
    THEN [st EXCEPT !.r = AddMessage(SetStatus(SetReady(st.r, FALSE), CheckStatusRed),
                                     "NOPRIORITY")]
    ELSE st

\* a plausible slip: an issue that is not started is RED, as the rules next
\* to it are
checkStartedRed(st, an) ==
    IF ~IsActive(issues[an.Issue]) /\ ~InStatus(issues[an.Issue], IssueStatusDone)
    THEN [st EXCEPT !.r = AddMessage(SetStatus(st.r, CheckStatusRed), "NOTSTARTED")]
    ELSE st

\* checkStarted verifies that the status is active or done
checkStarted(st, an) ==
    IF ~IsActive(issues[an.Issue]) /\ ~InStatus(issues[an.Issue], IssueStatusDone)
    THEN [st EXCEPT !.r = AddMessage(SetStatus(st.r, CheckStatusYellow), "NOTSTARTED")]
    ELSE st

\* checkImpediment notifies if there is an impediment flagged
checkImpediment(st, an) ==
    IF \/ issues[an.Issue].Impediment
       \/ AnyImpediment(st.mem, issues[an.Issue].LinkedIssues)
    THEN [st EXCEPT !.r = AddMessage(SetStatus(st.r, CheckStatusRed), "IMPEDIMENT")]
    ELSE st

\* checkMarketProblem verifies that there is a linked initiative
checkMarketProblem(st, an) ==
    IF IsType(issues[an.Issue], IssueTypeEpic) /\ issues[an.Issue].MarketProblem.nil
    THEN [st EXCEPT !.r = AddMessage(SetReady(st.r, FALSE), "NOMARKETPROBLEM")]
    ELSE st

\* a plausible slip: the rule walks the issue's LinkedIssues itself, as
\* checkImpediment does, whatever their status and project
checkIssueComponentUnfiltered(st, an) ==
    IF \E j \in 1..issues[an.Issue].LinkedIssues.len :
          Len(issues[st.mem[issues[an.Issue].LinkedIssues.arr][j]].Components) = 0
    THEN [st EXCEPT !.r = AddMessage(SetReady(st.r, FALSE), "ISSUENOCOMPONENT")]
    ELSE st

\* checkIssueComponent verifies that all the linked issues have at least a component
checkIssueComponent(st, an) ==
    IF an.IssueNoComponent
    THEN [st EXCEPT !.r = AddMessage(SetReady(st.r, FALSE), "ISSUENOCOMPONENT")]
    ELSE st

\* a plausible slip: the rule asks whether the issue has the component
checkMultiComponentHasComponent(st, an) ==
    IF an.Component.nil THEN st
    ELSE IF ~HasComponent(issues[an.Issue], an.Component.v)
         THEN [st EXCEPT !.r = AddMessage(SetStatus(SetReady(st.r, FALSE), CheckStatusYellow),
                                          "MULTICOMPONENT")]
         ELSE st

\* checkMultiComponent verifies that the relevant component is
checkMultiComponent(st, an) ==
    IF an.Component.nil THEN st
    ELSE IF Len(issues[an.Issue].Components) # 1
         THEN [st EXCEPT !.r = AddMessage(SetStatus(SetReady(st.r, FALSE), CheckStatusYellow),
                                          "MULTICOMPONENT")]
         ELSE st

\* a plausible slip: only the completion of the issues is looked at
checkDoneIssuesOnly(st, an) ==
    IF ~InStatus(issues[an.Issue], IssueStatusDone) THEN st
    ELSE IF an.IssuesCompletion.Status # an.IssuesCompletion.Total
         THEN [st EXCEPT !.r = AddMessage(SetStatus(st.r, CheckStatusRed), "NOTDONE")]
         ELSE [st EXCEPT !.r = SetStatus(st.r, CheckStatusGreen)]

\* a plausible slip: a complete Done issue is left without a status
checkDoneNoGreen(st, an) ==
    IF ~InStatus(issues[an.Issue], IssueStatusDone) THEN st
    ELSE IF \/ an.IssuesCompletion.Status # an.IssuesCompletion.Total
            \/ an.PointsCompletion.Status # an.PointsCompletion.Total
         THEN [st EXCEPT !.r = AddMessage(SetStatus(st.r, CheckStatusRed), "NOTDONE")]
         ELSE st

\* checkDone verifies that all the conditions are met for the done status
checkDone(st, an) ==
    IF ~InStatus(issues[an.Issue], IssueStatusDone) THEN st
    ELSE IF \/ an.IssuesCompletion.Status # an.IssuesCompletion.Total
            \/ an.PointsCompletion.Status # an.PointsCompletion.Total
         THEN [st EXCEPT !.r = AddMessage(SetStatus(st.r, CheckStatusRed), "NOTDONE")]
         ELSE [st EXCEPT !.r = SetStatus(st.r, CheckStatusGreen)]

\* a plausible slip: a Done linked issue does not count as started
checkStartedStoriesActiveOnly(st, an) ==
    IF ~IsType(issues[an.Issue], IssueTypeEpic) \/ ~IsActive(issues[an.Issue]) THEN st
    ELSE LET InComponent(i) == HasComponent(issues[i], an.Component.v)
             linkedIssues == IF ~an.Component.nil
                             THEN FilterByFunction(st.mem, issues[an.Issue].LinkedIssues,
                                                   [i \in DOMAIN issues |-> InComponent(i)])
                             ELSE [mem |-> st.mem, s |-> issues[an.Issue].LinkedIssues]
             activeIssues == FilterByFunction(linkedIssues.mem, linkedIssues.s,
                                             [i \in DOMAIN issues |-> IsActive(issues[i])])
         IN IF activeIssues.s.len = 0
            THEN [mem |-> activeIssues.mem,
                  r   |-> AddMessage(SetStatus(st.r, CheckStatusRed), "NOACTIVESTORIES")]
            ELSE [st EXCEPT !.mem = activeIssues.mem]

\* a plausible slip: the issues of the component are filtered in place, over
\* the array of the epic's LinkedIssues
checkStartedStoriesScopeInPlace(st, an) ==
    IF ~IsType(issues[an.Issue], IssueTypeEpic) \/ ~IsActive(issues[an.Issue]) THEN st
    ELSE LET InComponent(i) == HasComponent(issues[i], an.Component.v)
             ActiveOrDone(i) == \/ IsActive(issues[i])
                                \/ InStatus(issues[i], IssueStatusDone)
             linkedIssues == IF ~an.Component.nil
                             THEN FilterByFunctionInPlace(st.mem, issues[an.Issue].LinkedIssues,
                                                          [i \in DOMAIN issues |-> InComponent(i)])
                             ELSE [mem |-> st.mem, s |-> issues[an.Issue].LinkedIssues]
             activeIssues == FilterByFunction(linkedIssues.mem, linkedIssues.s,
                                              [i \in DOMAIN issues |-> ActiveOrDone(i)])
         IN IF activeIssues.s.len = 0
            THEN [mem |-> activeIssues.mem,
                  r   |-> AddMessage(SetStatus(st.r, CheckStatusRed), "NOACTIVESTORIES")]
            ELSE [st EXCEPT !.mem = activeIssues.mem]

\* a plausible slip: the active issues are filtered in place
checkStartedStoriesInPlace(st, an) ==
    IF ~IsType(issues[an.Issue], IssueTypeEpic) \/ ~IsActive(issues[an.Issue]) THEN st
    ELSE LET InComponent(i) == HasComponent(issues[i], an.Component.v)
             ActiveOrDone(i) == \/ IsActive(issues[i])
                                \/ InStatus(issues[i], IssueStatusDone)
             linkedIssues == IF ~an.Component.nil
                             THEN FilterByFunction(st.mem, issues[an.Issue].LinkedIssues,
                                                   [i \in DOMAIN issues |-> InComponent(i)])
                             ELSE [mem |-> st.mem, s |-> issues[an.Issue].LinkedIssues]
             activeIssues == FilterByFunctionInPlace(linkedIssues.mem, linkedIssues.s,
                                                     [i \in DOMAIN issues |-> ActiveOrDone(i)])
         IN IF activeIssues.s.len = 0
            THEN [mem |-> activeIssues.mem,
                  r   |-> AddMessage(SetStatus(st.r, CheckStatusRed), "NOACTIVESTORIES")]
            ELSE [st EXCEPT !.mem = activeIssues.mem]

\* a plausible slip: the rule looks at every Epic, started or not
checkStartedStoriesAnyStatus(st, an) ==
    IF ~IsType(issues[an.Issue], IssueTypeEpic) THEN st
    ELSE LET InComponent(i) == HasComponent(issues[i], an.Component.v)
             ActiveOrDone(i) == \/ IsActive(issues[i])
                                \/ InStatus(issues[i], IssueStatusDone)
             linkedIssues == IF ~an.Component.nil
                             THEN FilterByFunction(st.mem, issues[an.Issue].LinkedIssues,
                                                   [i \in DOMAIN issues |-> InComponent(i)])
                             ELSE [mem |-> st.mem, s |-> issues[an.Issue].LinkedIssues]
             activeIssues == FilterByFunction(linkedIssues.mem, linkedIssues.s,
                                             [i \in DOMAIN issues |-> ActiveOrDone(i)])
         IN IF activeIssues.s.len = 0
            THEN [mem |-> activeIssues.mem,
                  r   |-> AddMessage(SetStatus(st.r, CheckStatusRed), "NOACTIVESTORIES")]
            ELSE [st EXCEPT !.mem = activeIssues.mem]

checkStartedStories(st, an) ==
    IF ~IsType(issues[an.Issue], IssueTypeEpic) \/ ~IsActive(issues[an.Issue]) THEN st
    ELSE LET InComponent(i) == HasComponent(issues[i], an.Component.v)
             ActiveOrDone(i) == \/ IsActive(issues[i])
                                \/ InStatus(issues[i], IssueStatusDone)
             linkedIssues == IF ~an.Component.nil
                             THEN FilterByFunction(st.mem, issues[an.Issue].LinkedIssues,
                                                   [i \in DOMAIN issues |-> InComponent(i)])
                             ELSE [mem |-> st.mem, s |-> issues[an.Issue].LinkedIssues]
             activeIssues == FilterByFunction(linkedIssues.mem, linkedIssues.s,
                                             [i \in DOMAIN issues |-> ActiveOrDone(i)])
         IN IF activeIssues.s.len = 0
            THEN [mem |-> activeIssues.mem,
                  r   |-> AddMessage(SetStatus(st.r, CheckStatusRed), "NOACTIVESTORIES")]
            ELSE [st EXCEPT !.mem = activeIssues.mem]

checkLinkedEpic(st, an) ==
    IF ~IsType(issues[an.Issue], IssueTypeStory) THEN st
    ELSE IF issues[an.Issue].Epic.nil \/ issues[an.Issue].Epic.v = ""
         THEN [st EXCEPT !.r = AddMessage(SetReady(st.r, FALSE), "NOEPIC")]
         ELSE st

\* checkStatusComment verifies the status comment
checkStatusComment(st, an) ==
    IF an.CommentStatus = CheckStatusNone
    THEN [st EXCEPT !.r = AddMessage(st.r, "NOSTATUSCOMMENT")]
    ELSE [st EXCEPT !.r = SetStatus(st.r, an.CommentStatus)]

checkDesign(st, an) ==
    IF ~issues[an.Issue].Planning.NoFeature /\ issues[an.Issue].Design = ""
    THEN [st EXCEPT !.r = AddMessage(SetReady(st.r, FALSE), "NODESIGN")]
    ELSE st

\* the checks slice of NewCheckResult, in its order
checks ==
    << "checkAlongside", "checkVersion", "checkActivities", "checkDescription",
       "checkReadiness", "checkApprovals", "checkDeliveryOwner", "checkQEAssignee",
       "checkAcceptanceCriteria", "checkPriority", "checkStarted", "checkImpediment",
       "checkMarketProblem", "checkIssueComponent", "checkMultiComponent", "checkDone",
       "checkStartedStories", "checkLinkedEpic", "checkStatusComment", "checkDesign" >>

\* f(a) for one element f of the checks slice
RunCheck(f, st, an) ==
    CASE f = "checkAlongside" -> checkAlongside(st, an)
      [] f = "checkVersion" -> checkVersion(st, an)
      [] f = "checkActivities" -> checkActivities(st, an)
      [] f = "checkDescription" -> checkDescription(st, an)
      [] f = "checkReadiness" -> checkReadiness(st, an)
      [] f = "checkApprovals" -> checkApprovals(st, an)
      [] f = "checkDeliveryOwner" -> checkDeliveryOwner(st, an)
      [] f = "checkQEAssignee" -> checkQEAssignee(st, an)
      [] f = "checkAcceptanceCriteria" -> checkAcceptanceCriteria(st, an)
      [] f = "checkPriority" -> checkPriority(st, an)
      [] f = "checkStarted" -> checkStarted(st, an)
      [] f = "checkImpediment" -> checkImpediment(st, an)
      [] f = "checkMarketProblem" -> checkMarketProblem(st, an)
      [] f = "checkIssueComponent" -> checkIssueComponent(st, an)
      [] f = "checkMultiComponent" -> checkMultiComponent(st, an)
      [] f = "checkDone" -> checkDone(st, an)
      [] f = "checkStartedStories" -> checkStartedStories(st, an)
      [] f = "checkLinkedEpic" -> checkLinkedEpic(st, an)
      [] f = "checkStatusComment" -> checkStatusComment(st, an)
      [] f = "checkDesign" -> checkDesign(st, an)

\* for _, f := range fs { f(a) }
RECURSIVE RunChecks(_, _, _)
RunChecks(fs, st, an) ==
    IF fs = <<>> THEN st
    ELSE RunChecks(Tail(fs), RunCheck(Head(fs), st, an), an)

\* a plausible slip: the Obsolete branch does not return
NewCheckResultNoReturn(m, an) ==
    LET result == EmptyResult
    IN IF InStatus(issues[an.Issue], IssueStatusObsolete)
       THEN RunChecks(checks, [mem |-> m, r |-> AddMessage(result, "OBSOLETE")], an)
       ELSE RunChecks(checks, [mem |-> m, r |-> result], an)

\* NewCheckResult returns a new CheckResult
NewCheckResult(m, an) ==
    LET result == EmptyResult
    IN IF InStatus(issues[an.Issue], IssueStatusObsolete)
       THEN [mem |-> m, r |-> AddMessage(result, "OBSOLETE")]
       ELSE RunChecks(checks, [mem |-> m, r |-> result], an)

----------------------------------------------------------------------------
(* Input graphs: a baseline graph and bounded deviations from it *)

VersionA == <<"4",".","6">>
AlongsideA == StrAlongside \o <<" ","4",".","6">>

CommentGreen(t) == [Body |-> StrGreen \o <<" ","o","k">>, Updated |-> t]
CommentRed(t) == [Body |-> StrRed \o <<" ","l","a","t","e">>, Updated |-> t]

AllTrue6 == [Development |-> TRUE, Product |-> TRUE, Quality |-> TRUE,
             Experience |-> TRUE, Documentation |-> TRUE, Support |-> TRUE]
AllTrue5 == [Development |-> TRUE, Product |-> TRUE, Quality |-> TRUE,
             Experience |-> TRUE, Documentation |-> TRUE]

\* an Epic on which no rule but the status comment one has anything to say
BaseEpic ==
    [Key |-> "E-1", Project |-> "PRJ", Type |-> IssueTypeEpic,
     Status |-> IssueStatusInProgress, Priority |-> Ref("Major"),
     Resolution |-> NilRef, Components |-> <<"A">>, FixVersions |-> <<VersionA>>,
     Description |-> "text", Epic |-> NilRef, Readiness |-> AllTrue6,
     Approvals |-> AllTrue5,
     Planning |-> [NoFeature |-> FALSE, NoQuality |-> FALSE, NoDocumentation |-> FALSE],
     Design |-> "doc", QEAssignee |-> "quinn", Acceptance |-> "criteria",
     Owner |-> "alice", Impediment |-> FALSE, MarketProblem |-> Ref("MP-1"),
     StoryPoints |-> NoStoryPoints, Comments |-> <<>>,
     LinkedIssues |-> NewIssueCollection0]

\* a finished Story of component A, as FindIssues builds a linked issue
BaseChild ==
    [BaseEpic EXCEPT !.Key = "S-1", !.Type = IssueTypeStory, !.Status = IssueStatusDone,
                     !.Resolution = Ref(IssueResolutionDone), !.StoryPoints = 3,
                     !.MarketProblem = NilRef]

\* single-field deviations of the evaluated issue
EpicDevs ==
    << [f |-> "Type", v |-> IssueTypeStory],
       [f |-> "Type", v |-> IssueTypeTask],
       [f |-> "Status", v |-> IssueStatusDone],
       [f |-> "Status", v |-> "New"],
       [f |-> "Status", v |-> IssueStatusObsolete],
       [f |-> "Status", v |-> IssueStatusQEReview],
       [f |-> "FixVersions", v |-> <<>>],
       [f |-> "FixVersions", v |-> <<VersionA, <<"4",".","7">>>>],
       [f |-> "FixVersions", v |-> <<AlongsideA>>],
       [f |-> "FixVersions", v |-> <<AlongsideA, StrAlongside \o <<" ","4",".","7">>>>],
       [f |-> "Description", v |-> ""],
       [f |-> "Readiness", v |-> [AllTrue6 EXCEPT !.Support = FALSE]],
       [f |-> "Approvals", v |-> [AllTrue5 EXCEPT !.Documentation = FALSE]],
       [f |-> "Owner", v |-> ""],
       [f |-> "NoQuality", v |-> TRUE],
       [f |-> "QEAssignee", v |-> ""],
       [f |-> "Acceptance", v |-> ""],
       [f |-> "Priority", v |-> NilRef],
       [f |-> "Priority", v |-> Ref("")],
       [f |-> "Priority", v |-> Ref(IssuePriorityUnprioritized)],
       [f |-> "Impediment", v |-> TRUE],
       [f |-> "MarketProblem", v |-> NilRef],
       [f |-> "Components", v |-> <<>>],
       [f |-> "Components", v |-> <<"A", "B">>],
       [f |-> "Epic", v |-> Ref("E-9")],
       [f |-> "Epic", v |-> Ref("")],
       [f |-> "Design", v |-> ""],
       [f |-> "NoFeature", v |-> TRUE],
       [f |-> "Comments", v |-> <<CommentGreen(1)>>],
       [f |-> "Comments", v |-> <<CommentRed(1), CommentGreen(2)>>],
       [f |-> "Comments",
        v |-> << [Body |-> StrYellow \o <<"r","i","s","k">>, Updated |-> 1],
                 [Body |-> <<"r","e","d",":"," ","n","o","t","e">>, Updated |-> 2] >>] >>

\* single-field deviations of a linked issue
ChildDevs ==
    << [f |-> "Type", v |-> IssueTypeTask],
       [f |-> "Type", v |-> IssueTypeBug],
       [f |-> "Type", v |-> IssueTypeEpic],
       [f |-> "Status", v |-> IssueStatusInProgress],
       [f |-> "Status", v |-> "New"],
       [f |-> "Status", v |-> IssueStatusObsolete],
       [f |-> "Resolution", v |-> NilRef],
       [f |-> "Components", v |-> <<>>],
       [f |-> "Components", v |-> <<"B">>],
       [f |-> "StoryPoints", v |-> NoStoryPoints],
       [f |-> "StoryPoints", v |-> 0],
       [f |-> "Impediment", v |-> TRUE],
       [f |-> "Project", v |-> "OTHER"],
       [f |-> "Comments", v |-> <<CommentRed(3)>>],
       [f |-> "Comments", v |-> <<CommentGreen(3)>>] >>

\* values of the component argument other than nil
ComponentDevs == << Ref("A"), Ref("B"), Ref("") >>

SetField(i, d) ==
    CASE d.f = "NoQuality" -> [i EXCEPT !.Planning.NoQuality = d.v]
      [] d.f = "NoFeature" -> [i EXCEPT !.Planning.NoFeature = d.v]
      [] OTHER -> [i EXCEPT ![d.f] = d.v]

\* the baseline graph: the clean Epic with one finished Story linked
BaseGraph ==
    [epic |-> BaseEpic, comp |-> NilRef,
     slots |-> [s \in 1..MaxLinked |-> [present |-> (s = 1), child |-> BaseChild]]]

\* a second baseline: an Epic that nearly every rule objects to, with one
\* linked Bug that is not started and belongs to no component
DirtyGraph ==
    LET DirtyEpic ==
        [BaseEpic EXCEPT !.Status = "New", !.Priority = Ref(IssuePriorityUnprioritized),
                         !.Components = <<>>, !.FixVersions = <<AlongsideA, StrAlongside \o <<" ","4",".","7">>>>,
                         !.Description = "", !.Readiness = [AllTrue6 EXCEPT !.Quality = FALSE],
                         !.Approvals = [AllTrue5 EXCEPT !.Product = FALSE],
                         !.Design = "", !.QEAssignee = "", !.Acceptance = "", !.Owner = "",
                         !.Impediment = TRUE, !.MarketProblem = NilRef]
        DirtyChild ==
        [BaseChild EXCEPT !.Type = IssueTypeBug, !.Status = "New", !.Resolution = NilRef,
                          !.Components = <<>>, !.StoryPoints = NoStoryPoints]
    IN
    [epic |-> DirtyEpic, comp |-> Ref("A"),
     slots |-> [s \in 1..MaxLinked |-> [present |-> (s = 1), child |-> DirtyChild]]]

\* a third baseline: an Epic of two components, listed under the first, whose
\* first linked issue belongs to the second component and the others to the
\* first
SharedGraph ==
    [epic |-> [BaseEpic EXCEPT !.Components = <<"A", "B">>], comp |-> Ref("A"),
     slots |-> [s \in 1..MaxLinked |->
                  [present |-> TRUE,
                   child |-> IF s = 1
                             THEN [BaseChild EXCEPT !.Components = <<"B">>]
                             ELSE BaseChild]]]

Baselines == {BaseGraph, DirtyGraph, SharedGraph}

\* Deviations are numbered: 1..99 the evaluated issue's, 100*s + j those of
\* the linked issue in slot s (j = 0 adds or removes it), 1000 + j the
\* component argument's.
AllDevs ==
    (1..Len(EpicDevs))
    \cup {100 * s + j : s \in 1..MaxLinked, j \in 0..Len(ChildDevs)}
    \cup {1000 + j : j \in 1..Len(ComponentDevs)}

FieldOf(d) ==
    IF d < 100 THEN <<0, EpicDevs[d].f>>
    ELSE IF d >= 1000 THEN <<MaxLinked + 1, "component">>
    ELSE <<d \div 100, IF d % 100 = 0 THEN "present" ELSE ChildDevs[d % 100].f>>

ApplyDev(g, d) ==
    IF d < 100 THEN [g EXCEPT !.epic = SetField(g.epic, EpicDevs[d])]
    ELSE IF d >= 1000 THEN [g EXCEPT !.comp = ComponentDevs[d - 1000]]
    ELSE IF d % 100 = 0
         THEN [g EXCEPT !.slots[d \div 100].present = ~g.slots[d \div 100].present]
         ELSE [g EXCEPT !.slots[d \div 100].child =
                           SetField(g.slots[d \div 100].child, ChildDevs[d % 100])]

\* the sets of at most n deviations that touch pairwise different fields
RECURSIVE DevSets(_)
DevSets(n) ==
    IF n = 0 THEN {{}}
    ELSE LET smaller == DevSets(n - 1)
         IN smaller \cup
            {T \cup {d} : <<T, d>> \in
                {td \in smaller \X AllDevs :
                    /\ Cardinality(td[1]) = n - 1
                    /\ \A t \in td[1] : t < td[2] /\ FieldOf(t) # FieldOf(td[2])}}

RECURSIVE ApplyDevs(_, _)
ApplyDevs(g, D) ==
    IF D = {} THEN g
    ELSE LET d == CHOOSE x \in D : TRUE
         IN ApplyDevs(ApplyDev(g, d), D \ {d})

\* the heap FindIssues would have built for graph g: the linked issues sit
\* in one backing array allocated with len = cap
Linked(g) == SelectSeq(g.slots, LAMBDA x : x.present)

LinkedSlice(n) ==
    IF n = 0 THEN NewIssueCollection0 ELSE [arr |-> 1, len |-> n, cap |-> n]

HeapIssues(g) ==
    LET kids == Linked(g)
    IN [i \in 0..Len(kids) |->
          IF i = 0 THEN [g.epic EXCEPT !.LinkedIssues = LinkedSlice(Len(kids))]
          ELSE kids[i].child]

HeapMem(g) ==
    LET n == Len(Linked(g))
    IN IF n = 0 THEN <<>> ELSE << [j \in 1..n |-> j] >>

----------------------------------------------------------------------------
(* Evaluation of one issue, as writeIssues does it: NewIssueAnalysis, then *)
(* NewCheckResult.  The same issue is evaluated again when it is listed    *)
(* under another heading of the report, or when a caller evaluates the     *)
(* same issue and component once more.                                     *)

\* evaluations of the same issue
MaxRuns == 2

NoProgress == [Total |-> 0, Status |-> 0, Unknown |-> 0]
NoCall == [op |-> "none", arg |-> 0, msg |-> ""]

\* NewComponentsCollection returns a new ComponentsCollection.  Items holds
\* pointers into objs (the ComponentIssues structs), index maps names to the
\* same pointers.
NewComponentsCollection ==
    [Items |-> <<>>, Orphans |-> <<>>, index |-> <<>>, objs |-> <<>>]

\* the keys of the components map AddIssues builds for issue i: the issue's
\* own components and those of its linked issues that are not Obsolete
ComponentsOf(m, i) ==
    LET linked == Elems(m, issues[i].LinkedIssues)
        Names(x) == {issues[x].Components[j] : j \in 1..Len(issues[x].Components)}
    IN Names(i) \cup
       UNION {Names(linked[j]) :
                 j \in {x \in 1..Len(linked) :
                           ~InStatus(issues[linked[x]], IssueStatusObsolete)}}

\* arrays a function allocated are unreachable once it has returned: what
\* stays is the memory that existed before the call, as the call left it
Live(after, before) == SubSeq(after, 1, Len(before))

\* main has made its ComponentsCollection and has not called FindEpics:
\* there is no channel and no goroutine
NoFindEpics ==
    /\ cc = NewComponentsCollection
    /\ fe = [pc |-> "idle", issues |-> NewIssueCollection0,
             epics |-> NewIssueCollection0, n |-> 0, linksErr |-> "nil",
             ret |-> [issues |-> NewIssueCollection0, err |-> "nil"]]
    /\ ch = [made |-> FALSE, closed |-> FALSE]
    /\ goroutines = <<>>

\* the evaluation engine on its own: nothing is fetched from a server, and
\* the profile names no component
NoFetch ==
    /\ NoFindEpics
    /\ profile = [Include |-> <<>>, Exclude |-> <<>>]
    /\ jira = [search |-> [err |-> FALSE, issues |-> <<>>], epics |-> <<>>]

InitGraph(g) ==
    /\ NoFetch
    /\ issues = HeapIssues(g)
    /\ mem = HeapMem(g)
    /\ component = g.comp
    /\ a = NoAnalysis
    /\ r = EmptyResult
    /\ k = 0
    /\ run = 1
    /\ prev = [a |-> NoAnalysis, r |-> EmptyResult, seen |-> {}, mem |-> mem, pc |-> "none"]
    /\ call = NoCall
    /\ p = NoProgress

Init ==
    /\ \E base \in Baselines : \E D \in DevSets(MaxDeviations) :
          InitGraph(ApplyDevs(base, D))
    /\ pc = "analyze"
    /\ order = checks

\* a := analysis.NewIssueAnalysis(i, component)
DoNewIssueAnalysis ==
    /\ pc = "analyze"
    /\ prev.pc # "assessed"
    /\ LET res == NewIssueAnalysis(mem, 0, component)
       IN /\ a' = res.a
          /\ mem' = Live(res.mem, mem)
    /\ pc' = "check"
    /\ UNCHANGED <<cc, jira, profile, fe, ch, goroutines, issues, component, r, k, order, run, prev, call, p>>

\* r := NewCheckResult(a)
DoNewCheckResult ==
    /\ pc = "check"
    /\ LET res == NewCheckResult(mem, a)
       IN /\ r' = res.r
          /\ mem' = Live(res.mem, mem)
    /\ pc' = "done"
    /\ UNCHANGED <<cc, jira, profile, fe, ch, goroutines, issues, component, a, k, order, run, prev, call, p>>

\* main lists the issue again under the next heading it belongs to: the
\* issue was listed under a component (an orphan is listed once), w.Write
\* did not panic on a nil Fields.Priority, and writeIssues is called with
\* the name of another component of the issue
Reevaluate ==
    /\ pc = "done"
    /\ run < MaxRuns
    /\ ~component.nil
    /\ component.v \in ComponentsOf(mem, 0)
    /\ ~issues[0].Priority.nil
    /\ \E name \in ComponentsOf(mem, 0) \ (prev.seen \cup {component.v}) :
          component' = Ref(name)
    /\ prev' = [prev EXCEPT !.a = a, !.r = r, !.seen = @ \cup {component.v}, !.pc = pc]
    /\ run' = run + 1
    /\ a' = NoAnalysis
    /\ r' = EmptyResult
    /\ pc' = "analyze"
    /\ UNCHANGED <<cc, jira, profile, fe, ch, goroutines, issues, mem, k, order, call, p>>

\* the evaluation is applied once more to the same issue and the same
\* component, on the memory the evaluation before it left: NewIssueAnalysis
\* and NewCheckResult again after a finished evaluation, AnalyzeIssue again
\* after AnalyzeIssue.  What the evaluation before gave is kept aside.
EvaluateAgain ==
    /\ pc \in {"done", "assessed"}
    /\ run < MaxRuns
    /\ prev' = [prev EXCEPT !.a = a, !.r = r, !.pc = pc]
    /\ run' = run + 1
    /\ a' = NoAnalysis
    /\ r' = EmptyResult
    /\ pc' = "analyze"
    /\ UNCHANGED <<cc, jira, profile, fe, ch, goroutines, issues, component, mem, k, order, call, p>>

\* AnalyzeIssue, the entry point of analisys.go, applied to the issue and the
\* component in place of NewIssueAnalysis; a is then the IssueAnalysis of
\* analisys.go, which NewCheckResult does not read
CallAnalyzeIssue ==
    /\ pc = "analyze"
    /\ prev.pc \in {"none", "assessed"}
    /\ LET res == AnalyzeIssue(mem, 0, component)
       IN /\ a' = res.a
          /\ mem' = Live(res.mem, mem)
    /\ pc' = "assessed"
    /\ UNCHANGED <<cc, jira, profile, fe, ch, goroutines, issues, component, r, k, order, run, prev, call, p>>

Next ==
    \/ DoNewIssueAnalysis
    \/ CallAnalyzeIssue
    \/ DoNewCheckResult
    \/ Reevaluate
    \/ EvaluateAgain

Spec == Init /\ [][Next]_vars

----------------------------------------------------------------------------
(* The same evaluation with NewCheckResult taken one rule at a time, the   *)
(* rules in the order of `order`: the checks slice itself, or a            *)
(* rearrangement of it.                                                    *)

Reverse(s) == [j \in 1..Len(s) |-> s[Len(s) + 1 - j]]
Rotate(s, n) == [j \in 1..Len(s) |-> s[((j - 1 + n) % Len(s)) + 1]]

Orders == {checks, Reverse(checks)} \cup {Rotate(checks, 7 * n) : n \in 1..MaxRotations}

InitSteps ==
    /\ \E base \in Baselines : \E D \in DevSets(StepDeviations) :
          InitGraph(ApplyDevs(base, D))
    /\ pc = "analyze"
    /\ order \in Orders

\* NewCheckResult up to the loop over the checks
BeginNewCheckResult ==
    /\ pc = "check"
    /\ IF InStatus(issues[a.Issue], IssueStatusObsolete)
       THEN /\ r' = AddMessage(EmptyResult, "OBSOLETE")
            /\ pc' = "done"
            /\ k' = 0
       ELSE /\ r' = EmptyResult
            /\ pc' = "rules"
            /\ k' = 1
    /\ UNCHANGED <<cc, jira, profile, fe, ch, goroutines, issues, component, mem, a, order, run, prev, call, p>>

\* one iteration of the loop: f(a) for f = order[k]
Rule(f) ==
    /\ pc = "rules"
    /\ order[k] = f
    /\ LET res == RunCheck(f, [mem |-> mem, r |-> r], a)
       IN /\ r' = res.r
          /\ mem' = Live(res.mem, mem)
    /\ IF k = Len(order)
       THEN pc' = "done" /\ k' = 0
       ELSE pc' = "rules" /\ k' = k + 1
    /\ UNCHANGED <<cc, jira, profile, fe, ch, goroutines, issues, component, a, order, run, prev, call, p>>

RuleAlongside == Rule("checkAlongside")
RuleVersion == Rule("checkVersion")
RuleActivities == Rule("checkActivities")
RuleDescription == Rule("checkDescription")
RuleReadiness == Rule("checkReadiness")
RuleApprovals == Rule("checkApprovals")
RuleDeliveryOwner == Rule("checkDeliveryOwner")
RuleQEAssignee == Rule("checkQEAssignee")
RuleAcceptanceCriteria == Rule("checkAcceptanceCriteria")
RulePriority == Rule("checkPriority")
RuleStarted == Rule("checkStarted")
RuleImpediment == Rule("checkImpediment")
RuleMarketProblem == Rule("checkMarketProblem")
RuleIssueComponent == Rule("checkIssueComponent")
RuleMultiComponent == Rule("checkMultiComponent")
RuleDone == Rule("checkDone")
RuleStartedStories == Rule("checkStartedStories")
RuleLinkedEpic == Rule("checkLinkedEpic")
RuleStatusComment == Rule("checkStatusComment")
RuleDesign == Rule("checkDesign")

NextSteps ==
    \/ DoNewIssueAnalysis
    \/ BeginNewCheckResult
    \/ RuleAlongside
    \/ RuleVersion
    \/ RuleActivities
    \/ RuleDescription
    \/ RuleReadiness
    \/ RuleApprovals
    \/ RuleDeliveryOwner
    \/ RuleQEAssignee
    \/ RuleAcceptanceCriteria
    \/ RulePriority
    \/ RuleStarted
    \/ RuleImpediment
    \/ RuleMarketProblem
    \/ RuleIssueComponent
    \/ RuleMultiComponent
    \/ RuleDone
    \/ RuleStartedStories
    \/ RuleLinkedEpic
    \/ RuleStatusComment
    \/ RuleDesign

SpecSteps == InitSteps /\ [][NextSteps]_vars

----------------------------------------------------------------------------
(* A free-standing CheckResult on which a caller makes any calls *)

CallMessages == {"NOSTORIES", "NOTDONE"}

InitCalls ==
    /\ InitGraph(BaseGraph)
    /\ order = checks
    /\ pc = "calls"

CallSetReady(ready) ==
    /\ pc = "calls"
    /\ k < MaxCalls
    /\ r' = SetReady(r, ready)
    /\ call' = [op |-> "SetReady", arg |-> IF ready THEN 1 ELSE 0, msg |-> ""]
    /\ k' = k + 1
    /\ UNCHANGED <<cc, jira, profile, fe, ch, goroutines, issues, component, mem, a, pc, order, run, prev, p>>

CallSetStatus(status) ==
    /\ pc = "calls"
    /\ k < MaxCalls
    /\ r' = SetStatus(r, status)
    /\ call' = [op |-> "SetStatus", arg |-> status, msg |-> ""]
    /\ k' = k + 1
    /\ UNCHANGED <<cc, jira, profile, fe, ch, goroutines, issues, component, mem, a, pc, order, run, prev, p>>

CallAddMessage(message) ==
    /\ pc = "calls"
    /\ k < MaxCalls
    /\ r' = AddMessage(r, message)
    /\ call' = [op |-> "AddMessage", arg |-> 0, msg |-> message]
    /\ k' = k + 1
    /\ UNCHANGED <<cc, jira, profile, fe, ch, goroutines, issues, component, mem, a, pc, order, run, prev, p>>

NextCalls ==
    \/ \E ready \in BOOLEAN : CallSetReady(ready)
    \/ \E status \in CheckStatusNone..CheckStatusRed : CallSetStatus(status)
    \/ \E message \in CallMessages : CallAddMessage(message)

SpecCalls == InitCalls /\ [][NextCalls]_vars

----------------------------------------------------------------------------
(* Progress and StoryPointsProgress applied to a collection *)

CollectionPool ==
    {[BaseChild EXCEPT !.Type = t, !.Status = s, !.Resolution = res, !.StoryPoints = sp] :
        t \in {IssueTypeStory, IssueTypeTask},
        s \in {IssueStatusInProgress, IssueStatusObsolete},
        res \in {NilRef, Ref(IssueResolutionDone), Ref("Duplicate")},
        sp \in {NoStoryPoints, 0, 2}}

InitProgress ==
    /\ \E n \in 0..MaxColl : \E c \in [1..n -> CollectionPool] :
          /\ issues = [i \in 0..n |->
                         IF i = 0 THEN [BaseEpic EXCEPT !.LinkedIssues = LinkedSlice(n)]
                         ELSE c[i]]
          /\ mem = IF n = 0 THEN <<>> ELSE << [j \in 1..n |-> j] >>
    /\ NoFetch
    /\ component = NilRef
    /\ a = NoAnalysis
    /\ r = EmptyResult
    /\ pc = "collection"
    /\ k = 0
    /\ order = checks
    /\ run = 1
    /\ prev = [a |-> NoAnalysis, r |-> EmptyResult, seen |-> {}, mem |-> mem, pc |-> "none"]
    /\ call = NoCall
    /\ p = NoProgress

DoProgress ==
    /\ pc = "collection"
    /\ p' = Progress(mem, issues[0].LinkedIssues)
    /\ pc' = "Progress"
    /\ UNCHANGED <<cc, jira, profile, fe, ch, goroutines, issues, component, mem, a, r, k, order, run, prev, call>>

DoStoryPointsProgress ==
    /\ pc = "collection"
    /\ p' = StoryPointsProgress(mem, issues[0].LinkedIssues)
    /\ pc' = "StoryPointsProgress"
    /\ UNCHANGED <<cc, jira, profile, fe, ch, goroutines, issues, component, mem, a, r, k, order, run, prev, call>>

NextProgress == DoProgress \/ DoStoryPointsProgress

SpecProgress == InitProgress /\ [][NextProgress]_vars

----------------------------------------------------------------------------
(* main's ComponentsCollection: Add and AddIssues, called in any sequence *)

\* calls made on the collection
MaxAdds == 3

\* a plausible slip: the lookup in index is missing, so every Add makes a
\* new ComponentIssues
AddWithoutLookup(c, comp, issue) ==
    LET item == Len(c.objs) + 1
        c1 == [c EXCEPT !.objs = Append(@, [Name |-> comp, Issues |-> <<>>]),
                        !.Items = Append(@, item),
                        !.index = [n \in DOMAIN c.index \cup {comp} |->
                                      IF n = comp THEN item ELSE c.index[n]]]
    IN [c1 EXCEPT !.objs[c1.index[comp]].Issues = @ \o issue]

\* Add initializes the relevant component if needed and optionally adds issues
Add(c, comp, issue) ==
    LET ok == comp \in DOMAIN c.index
        item == Len(c.objs) + 1
        c1 == IF ~ok
              THEN [c EXCEPT !.objs = Append(@, [Name |-> comp, Issues |-> <<>>]),
                             !.Items = Append(@, item),
                             !.index = [n \in DOMAIN c.index \cup {comp} |->
                                           IF n = comp THEN item ELSE c.index[n]]]
              ELSE c
    IN [c1 EXCEPT !.objs[c1.index[comp]].Issues = @ \o issue]

\* for k := range components { c.Add(k, i) }: Go ranges over a map in an
\* order it does not specify, so every order is a possible outcome
RECURSIVE AddInMapOrder(_, _, _)
AddInMapOrder(c, names, i) ==
    IF names = {} THEN {c}
    ELSE UNION {AddInMapOrder(Add(c, n, <<i>>), names \ {n}, i) : n \in names}

\* AddIssues adds all the issues by component: the collections it can leave
RECURSIVE AddIssues(_, _, _)
AddIssues(c, m, list) ==
    IF list = <<>> THEN {c}
    ELSE LET i == Head(list)
             components == ComponentsOf(m, i)
             after == IF components # {}
                      THEN AddInMapOrder(c, components, i)
                      ELSE {[c EXCEPT !.Orphans = Append(@, i)]}
         IN UNION {AddIssues(c1, m, Tail(list)) : c1 \in after}

\* the issue graphs the collection is fed from: components A; none at all;
\* A and B with a linked issue of C; A with an Obsolete linked issue of B
ComponentGraphs ==
    {BaseGraph, DirtyGraph,
     [BaseGraph EXCEPT !.epic.Components = <<"A", "B">>,
                       !.slots[1].child.Components = <<"C">>],
     [BaseGraph EXCEPT !.slots[1].child.Status = IssueStatusObsolete,
                       !.slots[1].child.Components = <<"B">>]}

InitComponents ==
    /\ \E g \in ComponentGraphs : InitGraph(g)
    /\ order = checks
    /\ pc = "components"

CallAdd(name, issue) ==
    /\ pc = "components"
    /\ k < MaxAdds
    /\ cc' = Add(cc, name, issue)
    /\ call' = [op |-> "Add", component |-> name, issues |-> issue]
    /\ k' = k + 1
    /\ UNCHANGED <<jira, profile, fe, ch, goroutines, issues, component, mem, a, r, pc,
                   order, run, prev, p>>

CallAddIssues(list) ==
    /\ pc = "components"
    /\ k < MaxAdds
    /\ cc' \in AddIssues(cc, mem, list)
    /\ call' = [op |-> "AddIssues", component |-> "", issues |-> list]
    /\ k' = k + 1
    /\ UNCHANGED <<jira, profile, fe, ch, goroutines, issues, component, mem, a, r, pc,
                   order, run, prev, p>>

NextComponents ==
    \/ \E name \in {"A", "B", "C"} : \E issue \in {<<>>, <<0>>, <<1, 0>>} :
          CallAdd(name, issue)
    \/ \E list \in {<<0>>, <<1>>, <<0, 1>>} : CallAddIssues(list)

SpecComponents == InitComponents /\ [][NextComponents]_vars

----------------------------------------------------------------------------
(* main from Client.FindEpics on: the search, one goroutine per Epic       *)
(* running addLinkedIssues and sending its result on an unbuffered         *)
(* channel, the receive loop, the deferred close; then main panics on an   *)
(* error, or groups the issues by component and evaluates them.            *)

\* issues the first search returns
MaxFound == 2

\* the values of an error: nil, ErrMultipleIssues, and "search failed" for
\* whatever error a search returns
ErrNil == "nil"
ErrMultipleIssues == "jira: unexpected multiple issues"

\* keys of the issues the first search returns, by position
Keys == <<"E-1", "E-2", "E-3", "E-4">>

\* issues as the server holds them: an Epic and a Story of component A, a
\* Story of no component, and a Story without a priority; FindIssues builds
\* each with a nil MarketProblem and NewIssueCollection(0) as LinkedIssues
FoundPool ==
    {[BaseEpic EXCEPT !.MarketProblem = NilRef],
     [BaseEpic EXCEPT !.MarketProblem = NilRef, !.Type = IssueTypeStory,
                      !.Epic = Ref("E-9")],
     [BaseEpic EXCEPT !.MarketProblem = NilRef, !.Type = IssueTypeStory,
                      !.Epic = Ref("E-9"), !.Components = <<>>],
     [BaseEpic EXCEPT !.MarketProblem = NilRef, !.Type = IssueTypeStory,
                      !.Epic = Ref("E-9"), !.Priority = NilRef]}

\* what the server answers to the two searches of addLinkedIssues: the
\* Market Problems above the issue (an error, or how many there are) and the
\* issues in the epic (an error, or the issues)
EpicAnswers(type) ==
    IF type = IssueTypeEpic
    THEN {[problems |-> [err |-> e1, n |-> n], inEpic |-> [err |-> e2, issues |-> <<BaseChild>>]] :
             <<e1, n>> \in {<<TRUE, 0>>, <<FALSE, 0>>, <<FALSE, 1>>, <<FALSE, 2>>},
             e2 \in BOOLEAN}
    ELSE {[problems |-> [err |-> FALSE, n |-> 1],
           inEpic |-> [err |-> FALSE, issues |-> <<BaseChild>>]]}

\* FindIssues finds all the Jira Issues returned by the JQL search: on the
\* heap h and memory m, given the server's answer, the error, the new heap,
\* the new memory and the collection returned
FindIssues(h, m, answer) ==
    IF answer.err
    THEN [err |-> "search failed", heap |-> h, mem |-> m, s |-> NewIssueCollection0]
    ELSE LET base == Cardinality(DOMAIN h)
             n == Len(answer.issues)
         IN IF n = 0
            THEN [err |-> ErrNil, heap |-> h, mem |-> m, s |-> NewIssueCollection0]
            ELSE [err |-> ErrNil,
                  heap |-> [i \in 0..(base + n - 1) |->
                              IF i < base THEN h[i] ELSE answer.issues[i - base + 1]],
                  mem |-> Append(m, [j \in 1..n |-> base + j - 1]),
                  s |-> [arr |-> Len(m) + 1, len |-> n, cap |-> n]]

\* a plausible slip: the goroutines are started for every issue found
EpicsUnfiltered(h, m, found) ==
    FilterByFunction(m, found, [i \in DOMAIN h |-> TRUE])

\* epics := issues.FilterByFunction(IsType(IssueTypeEpic))
EpicsOf(h, m, found) ==
    FilterByFunction(m, found, [i \in DOMAIN h |-> IsType(h[i], IssueTypeEpic)])

\* the switch of addLinkedIssues on the Market Problem search: the error to
\* return at once, or none and whether the function goes on
MarketProblemCase(answer) ==
    CASE answer.err -> [return |-> TRUE, err |-> "search failed"]
      [] answer.n > 1 -> [return |-> TRUE, err |-> ErrMultipleIssues]
      [] answer.n < 1 -> [return |-> TRUE, err |-> ErrNil]
      [] OTHER -> [return |-> FALSE, err |-> ErrNil]

\* a plausible slip: the error of the last goroutine heard wins
LinksErrLastWins(linksErr, err) == err

\* if err := <-ch; err != nil { linksErr = err }
LinksErr(linksErr, err) == IF err # ErrNil THEN err ELSE linksErr

\* a plausible slip: the receive loop returns at the first error
ReceivedAllOrError(received, total, err) == received = total \/ err # ErrNil

\* for range epics { <-ch }: the loop ends after one receive per Epic
ReceivedAll(received, total, err) == received = total

\* main before its first statement on the ComponentsCollection: the profile
\* read from the configuration, and the searches the server may be asked,
\* with its answers
InitFind ==
    /\ \E include \in {<<>>, <<"B">>}, exclude \in {<<>>, <<"A">>} :
          profile = [Include |-> include, Exclude |-> exclude]
    /\ \/ jira = [search |-> [err |-> TRUE, issues |-> <<>>], epics |-> <<>>]
       \/ \E n \in 0..MaxFound : \E found \in [1..n -> FoundPool] :
             \E answers \in [1..n -> UNION {EpicAnswers(t) : t \in {IssueTypeEpic, IssueTypeStory}}] :
                /\ \A j \in 1..n : answers[j] \in EpicAnswers(found[j].Type)
                /\ jira = [search |-> [err |-> FALSE,
                                       issues |-> [j \in 1..n |-> [found[j] EXCEPT !.Key = Keys[j]]]],
                           epics |-> [key \in {Keys[j] : j \in 1..n} |->
                                         answers[CHOOSE j \in 1..n : Keys[j] = key]]]
    /\ issues = <<>>
    /\ mem = <<>>
    /\ component = NilRef
    /\ NoFindEpics
    /\ a = NoAnalysis
    /\ r = EmptyResult
    /\ pc = "include"
    /\ k = 0
    /\ order = checks
    /\ run = 1
    /\ prev = [a |-> NoAnalysis, r |-> EmptyResult, seen |-> {}, mem |-> mem, pc |-> "none"]
    /\ call = NoCall
    /\ p = NoProgress

\* one iteration of: for _, c := range profile.Components.Include {
\* componentIssues.Add(c) }; after the last, main goes on to FindEpics
IncludeComponent ==
    /\ pc = "include"
    /\ IF k < Len(profile.Include)
       THEN /\ cc' = Add(cc, profile.Include[k + 1], <<>>)
            /\ k' = k + 1
            /\ pc' = "include"
       ELSE /\ pc' = "find"
            /\ k' = 0
            /\ UNCHANGED cc
    /\ UNCHANGED <<issues, component, mem, a, r, order, run, prev, call, p, jira, profile, fe, ch, goroutines>>

\* issues, err := c.FindIssues(jql); the filter; ch := make(chan error);
\* defer close(ch)
BeginFindEpics ==
    /\ pc = "find"
    /\ fe.pc = "idle"
    /\ LET res == FindIssues(issues, mem, jira.search)
           epics == EpicsOf(res.heap, res.mem, res.s)
       IN IF res.err # ErrNil
          THEN /\ fe' = [fe EXCEPT !.pc = "returned",
                                   !.ret = [issues |-> NewIssueCollection0, err |-> res.err]]
               /\ UNCHANGED <<issues, mem, ch>>
          ELSE /\ issues' = res.heap
               /\ mem' = epics.mem
               /\ ch' = [made |-> TRUE, closed |-> FALSE]
               /\ fe' = [fe EXCEPT !.pc = IF epics.s.len = 0 THEN "return" ELSE "spawn",
                                   !.issues = res.s, !.epics = epics.s]
    /\ UNCHANGED <<component, a, r, pc, k, order, run, prev, call, p, cc, jira, profile, goroutines>>

\* one iteration of: for _, i := range epics { go func(...){ ch <- addLinkedIssues(c, i) }(i, ch) }
StartGoroutine ==
    /\ fe.pc = "spawn"
    /\ goroutines' = Append(goroutines,
                            [pc |-> "problems", i |-> mem[fe.epics.arr][fe.n + 1], err |-> ErrNil])
    /\ fe' = IF fe.n + 1 = fe.epics.len
             THEN [fe EXCEPT !.pc = "receive", !.n = 0]
             ELSE [fe EXCEPT !.n = fe.n + 1]
    /\ UNCHANGED <<issues, component, mem, a, r, pc, k, order, run, prev, call, p, cc, jira, profile, ch>>

\* addLinkedIssues up to i.MarketProblem = marketProblem[0]
SearchMarketProblem(g) ==
    /\ goroutines[g].pc = "problems"
    /\ LET i == goroutines[g].i
           case == MarketProblemCase(jira.epics[issues[i].Key].problems)
       IN IF case.return
          THEN /\ goroutines' = [goroutines EXCEPT ![g].pc = "send", ![g].err = case.err]
               /\ UNCHANGED issues
          ELSE /\ issues' = [issues EXCEPT ![i].MarketProblem = Ref("MP-1")]
               /\ goroutines' = [goroutines EXCEPT ![g].pc = "linked"]
    /\ UNCHANGED <<component, mem, a, r, pc, k, order, run, prev, call, p, cc, jira, profile, fe, ch>>

\* addLinkedIssues from the second search to its return
SearchLinkedIssues(g) ==
    /\ goroutines[g].pc = "linked"
    /\ LET i == goroutines[g].i
           res == FindIssues(issues, mem, jira.epics[issues[i].Key].inEpic)
       IN IF res.err # ErrNil
          THEN /\ goroutines' = [goroutines EXCEPT ![g].pc = "send", ![g].err = res.err]
               /\ UNCHANGED <<issues, mem>>
          ELSE /\ issues' = [res.heap EXCEPT ![i].LinkedIssues = res.s]
               /\ mem' = res.mem
               /\ goroutines' = [goroutines EXCEPT ![g].pc = "send", ![g].err = ErrNil]
    /\ UNCHANGED <<component, a, r, pc, k, order, run, prev, call, p, cc, jira, profile, fe, ch>>

\* ch <- err in the goroutine meeting err := <-ch in FindEpics (the channel
\* is unbuffered); a send on a closed channel panics
Send(g) ==
    /\ goroutines[g].pc = "send"
    /\ IF ch.closed
       THEN /\ goroutines' = [goroutines EXCEPT ![g].pc = "panic"]
            /\ UNCHANGED fe
       ELSE /\ fe.pc = "receive"
            /\ goroutines' = [goroutines EXCEPT ![g].pc = "done"]
            /\ fe' = [fe EXCEPT
                        !.linksErr = LinksErr(fe.linksErr, goroutines[g].err),
                        !.n = fe.n + 1,
                        !.pc = IF ReceivedAll(fe.n + 1, fe.epics.len, goroutines[g].err)
                               THEN "return" ELSE "receive"]
    /\ UNCHANGED <<issues, component, mem, a, r, pc, k, order, run, prev, call, p, cc, jira, profile, ch>>

\* return issues, linksErr; the deferred close(ch) runs
ReturnFindEpics ==
    /\ fe.pc = "return"
    /\ ch' = [ch EXCEPT !.closed = TRUE]
    /\ fe' = [fe EXCEPT !.pc = "returned",
                        !.ret = [issues |-> fe.issues, err |-> fe.linksErr]]
    /\ UNCHANGED <<issues, component, mem, a, r, pc, k, order, run, prev, call, p, cc, jira, profile, goroutines>>

\* if err != nil { panic(err) }; componentIssues.AddIssues(issues)
PanicOrAddIssues ==
    /\ pc = "find"
    /\ fe.pc = "returned"
    /\ IF fe.ret.err # ErrNil
       THEN pc' = "panic" /\ UNCHANGED cc
       ELSE /\ cc' \in AddIssues(cc, mem, Elems(mem, fe.ret.issues))
            /\ pc' = "write"
    /\ UNCHANGED <<issues, component, mem, a, r, k, order, run, prev, call, p, jira, profile, fe, ch, goroutines>>

\* what main writes, in order: for every entry of Items whose name is not
\* in profile.Components.Exclude its issues under the component's name, then
\* the Orphans under no component
RECURSIVE Listing(_, _)
Listing(c, j) ==
    IF j > Len(c.Items)
    THEN [x \in 1..Len(c.Orphans) |-> [comp |-> NilRef, i |-> c.Orphans[x]]]
    ELSE LET item == c.objs[c.Items[j]]
             skipComponent == \E x \in 1..Len(profile.Exclude) :
                                 item.Name = profile.Exclude[x]
         IN IF skipComponent
            THEN Listing(c, j + 1)
            ELSE [x \in 1..Len(item.Issues) |->
                     [comp |-> Ref(item.Name), i |-> item.Issues[x]]]
                 \o Listing(c, j + 1)

\* one iteration of the loop of writeIssues: the analysis and the result of
\* the next issue listed, then w.Write, which reads i.Fields.Priority.Name
\* and panics when Priority is nil; main ends after the last issue
WriteIssue ==
    /\ pc = "write"
    /\ IF k < Len(Listing(cc, 1))
       THEN LET line == Listing(cc, 1)[k + 1]
                an == NewIssueAnalysis(mem, line.i, line.comp)
                res == NewCheckResult(an.mem, an.a)
            IN /\ component' = line.comp
               /\ a' = an.a
               /\ r' = res.r
               /\ mem' = Live(res.mem, mem)
               /\ k' = k + 1
               /\ pc' = IF issues[line.i].Priority.nil
                        THEN "nil dereference" ELSE "write"
       ELSE pc' = "exit" /\ UNCHANGED <<component, a, r, mem, k>>
    /\ UNCHANGED <<issues, order, run, prev, call, p, cc, jira, profile, fe, ch, goroutines>>

NextFind ==
    \/ IncludeComponent
    \/ BeginFindEpics
    \/ StartGoroutine
    \/ \E g \in DOMAIN goroutines : SearchMarketProblem(g)
    \/ \E g \in DOMAIN goroutines : SearchLinkedIssues(g)
    \/ \E g \in DOMAIN goroutines : Send(g)
    \/ ReturnFindEpics
    \/ PanicOrAddIssues
    \/ WriteIssue

SpecFind == InitFind /\ [][NextFind]_vars

----------------------------------------------------------------------------
(* Properties *)

Max(x, y) == IF x >= y THEN x ELSE y

IsPrefix(s, t) == Len(s) <= Len(t) /\ SubSeq(t, 1, Len(s)) = s

\* the multiset of the elements of a sequence
MessageBag(s) ==
    [m \in {s[j] : j \in 1..Len(s)} |-> Cardinality({j \in 1..Len(s) : s[j] = m})]

\* C1: on a CheckResult that starts ready, every call leaves Ready equal to
\* the old Ready AND the value passed to SetReady; SetStatus and AddMessage
\* leave it alone.  So Ready only ever goes from true to false.
C1_ReadyMonotone ==
    [][ /\ k = 0 => r.Ready
        /\ r'.Ready = (r.Ready /\ (call'.op = "SetReady" => call'.arg = 1)) ]_vars

\* SetReady(true) has just been called on a result that is not ready
C1_Witness == call.op = "SetReady" /\ call.arg = 1 /\ ~r.Ready /\ k >= 2

\* C2: Status starts at NONE and after SetStatus(s) is the maximum of the
\* old Status and s; SetReady and AddMessage leave it alone.
C2_StatusIsMax ==
    [][ /\ k = 0 => r.Status = CheckStatusNone
        /\ r'.Status = IF call'.op = "SetStatus"
                       THEN Max(r.Status, call'.arg)
                       ELSE r.Status ]_vars

\* SetStatus(GREEN) has just been called on a result that is YELLOW or RED
C2_Witness ==
    /\ call.op = "SetStatus" /\ call.arg = CheckStatusGreen
    /\ r.Status \in {CheckStatusYellow, CheckStatusRed}

\* C3: the result for an issue in Obsolete status is ready, NONE, with the
\* one message OBSOLETE, whatever its other fields are.
C3_ObsoleteShortCircuit ==
    (pc = "done" /\ InStatus(issues[0], IssueStatusObsolete))
        => r = [Ready |-> TRUE, Status |-> CheckStatusNone, Messages |-> <<"OBSOLETE">>]

\* an Obsolete issue that several rules would object to has been evaluated
C3_Witness ==
    /\ pc = "done"
    /\ InStatus(issues[0], IssueStatusObsolete)
    /\ issues[0].Owner = ""
    /\ issues[0].Impediment

\* C4: whatever the order the rules were run in, the final Ready and Status
\* are those of the run in the order of the checks slice, and the messages
\* are the same as a multiset.
C4_OrderIndependent ==
    pc = "done" =>
        LET fixed == NewCheckResult(mem, a).r
        IN /\ r.Ready = fixed.Ready
           /\ r.Status = fixed.Status
           /\ MessageBag(r.Messages) = MessageBag(fixed.Messages)

\* the rules ran in another order and left the messages in another order,
\* two of them having set a status
C4_Witness ==
    /\ pc = "done"
    /\ order # checks
    /\ r.Messages # NewCheckResult(mem, a).r.Messages
    /\ \E i, j \in 1..Len(r.Messages) : r.Messages[i] = "NOTSTARTED" /\ r.Messages[j] = "NOACKS"

\* position of a message's rule in the list of the claim
Rank(message) ==
    CASE message = "ALONGSIDE" -> 1
      [] message \in {"NOVERSION", "MULTIVERSION"} -> 2
      [] message = "NOSTORIES" -> 3
      [] message = "NODESCRIPTION" -> 4
      [] message = "NOTREADY" -> 5
      [] message = "NOACKS" -> 6
      [] message = "NODELIVERYOWNER" -> 7
      [] message \in {"NOQEMISMATCH", "NOQEASSIGNEE"} -> 8
      [] message = "NOCRITERIA" -> 9
      [] message = "NOPRIORITY" -> 10
      [] message = "NOTSTARTED" -> 11
      [] message = "IMPEDIMENT" -> 12
      [] message = "NOMARKETPROBLEM" -> 13
      [] message = "ISSUENOCOMPONENT" -> 14
      [] message = "MULTICOMPONENT" -> 15
      [] message = "NOTDONE" -> 16
      [] message = "NOACTIVESTORIES" -> 17
      [] message = "NOEPIC" -> 18
      [] message = "NOSTATUSCOMMENT" -> 19
      [] message = "NODESIGN" -> 20
      [] OTHER -> 0

RankOrdered(s) ==
    /\ \A j \in 1..Len(s) : Rank(s[j]) > 0
    /\ \A i, j \in 1..Len(s) : i < j => Rank(s[i]) <= Rank(s[j])

\* C5: while NewCheckResult runs the rules in the order of the checks slice,
\* every step only appends to Messages, and the messages stay in the order
\* of their rules.
C5_MessagesAppendOnlyInRuleOrder ==
    [][ (order = checks /\ pc = "rules") =>
            /\ IsPrefix(r.Messages, r'.Messages)
            /\ Len(r'.Messages) <= Len(r.Messages) + 1
            /\ RankOrdered(r'.Messages) ]_vars

\* a run in the order of the checks slice has ended with many messages
C5_Witness ==
    /\ pc = "done"
    /\ order = checks
    /\ Len(r.Messages) >= 12

\* C6: evaluating the same issue under the same component a second time, on
\* the memory the first evaluation left, gives the analysis and the
\* CheckResult the first evaluation gave: same Ready, same Status and the
\* same sequence of messages; the same holds of AnalyzeIssue's analysis.
\* An evaluation under another heading gives what that heading gives when
\* nothing was evaluated before.
C6_SameResultTwice ==
    /\ (run > 1 /\ pc = "done" /\ prev.pc = "done" /\ prev.a.Component = component)
          => /\ a = prev.a
             /\ r.Ready = prev.r.Ready
             /\ r.Status = prev.r.Status
             /\ r.Messages = prev.r.Messages
    /\ (run > 1 /\ pc = "assessed" /\ prev.pc = "assessed") => a = prev.a
    /\ (run > 1 /\ pc = "done" /\ prev.a.Component # component)
          => LET first == NewIssueAnalysis(prev.mem, 0, component)
             IN r = NewCheckResult(first.mem, first.a).r

\* an Epic with two linked issues, one of them outside the component, has
\* been evaluated twice under that component: the filters ran both times,
\* and the second result has the messages of the first
C6_Witness ==
    /\ run = 2 /\ pc = "done" /\ prev.pc = "done"
    /\ ~component.nil /\ prev.a.Component = component
    /\ issues[0].LinkedIssues.len = 2
    /\ a.IssuesCompletion.Total = 1
    /\ IsActive(issues[0])
    /\ Len(r.Messages) >= 1
    /\ r = prev.r

\* C7: no step of an evaluation changes an issue, or the elements of the
\* evaluated issue's LinkedIssues.
C7_InputNotMutated ==
    [][ /\ issues' = issues
        /\ Elems(mem', issues'[0].LinkedIssues) = Elems(mem, issues[0].LinkedIssues)
        /\ mem' = mem ]_vars

\* an evaluation has ended whose filters dropped the first linked issue and
\* kept the second, and whose comment scan appended the issue itself
C7_Witness ==
    /\ pc = "done"
    /\ issues[0].LinkedIssues.len = 2
    /\ ~IsActive(issues[1]) /\ ~InStatus(issues[1], IssueStatusDone)
    /\ InStatus(issues[2], IssueStatusDone)
    /\ IsType(issues[0], IssueTypeEpic) /\ IsActive(issues[0])

\* indexes of the issues of the collection that satisfy Q
\* (the collection of SpecProgress is issue 0's LinkedIssues)
Members == 1..issues[0].LinkedIssues.len

RECURSIVE SumPoints(_)
SumPoints(S) ==
    IF S = {} THEN 0
    ELSE LET j == CHOOSE x \in S : TRUE
         IN issues[j].StoryPoints + SumPoints(S \ {j})

\* C8: every Progress value produced has completed <= total.
C8_CompletedAtMostTotal ==
    (pc \in {"Progress", "StoryPointsProgress"}) => p.Status <= p.Total

\* story points were summed over a collection part done and part not
C8_Witness ==
    /\ pc = "StoryPointsProgress"
    /\ 0 < p.Status /\ p.Status < p.Total

\* C9: Progress() counts the issues that are not Obsolete in total, those of
\* them whose resolution is Done in completed, and nothing in unknown.
C9_ProgressCounts ==
    pc = "Progress" =>
        LET counted == {j \in Members : issues[j].Status # IssueStatusObsolete}
            done == {j \in counted :
                        ~issues[j].Resolution.nil /\ issues[j].Resolution.v = "Done"}
        IN p = [Total |-> Cardinality(counted), Status |-> Cardinality(done), Unknown |-> 0]

\* Progress() ran over an Obsolete issue resolved as Done and another issue
C9_Witness ==
    /\ pc = "Progress"
    /\ \E j \in Members : /\ issues[j].Status = IssueStatusObsolete
                          /\ issues[j].Resolution = Ref("Done")
    /\ p.Total = 1

\* C10: StoryPointsProgress() looks only at the Stories that are not
\* Obsolete: total sums the defined story points, completed those of the
\* Stories resolved as Done, unknown counts the Stories with the sentinel.
C10_StoryPointsCounts ==
    pc = "StoryPointsProgress" =>
        LET stories == {j \in Members : /\ issues[j].Type = "Story"
                                        /\ issues[j].Status # IssueStatusObsolete}
            defined == {j \in stories : issues[j].StoryPoints >= 0}
            done == {j \in defined :
                        ~issues[j].Resolution.nil /\ issues[j].Resolution.v = "Done"}
            unknown == {j \in stories : issues[j].StoryPoints = NoStoryPoints}
        IN p = [Total |-> SumPoints(defined), Status |-> SumPoints(done),
                Unknown |-> Cardinality(unknown)]

\* StoryPointsProgress() ran over a Story without points and a Story with
C10_Witness ==
    /\ pc = "StoryPointsProgress"
    /\ p.Unknown = 1 /\ p.Total = 2 /\ p.Status = 2

\* the message is in the result's list
HasMessage(res, message) == \E j \in 1..Len(res.Messages) : res.Messages[j] = message

\* the issues linked to the evaluated issue
LinkedPointers ==
    {Elems(mem, issues[0].LinkedIssues)[j] : j \in 1..issues[0].LinkedIssues.len}

\* the evaluated Epic has no linked issue that is a Story, Task or Bug and
\* is not Obsolete
NoLinkedWork ==
    /\ IsType(issues[0], IssueTypeEpic)
    /\ \A i \in LinkedPointers :
          \/ issues[i].Status = IssueStatusObsolete
          \/ issues[i].Type \notin {"Story", "Task", "Bug"}

\* C11 (as amended): an Epic that is not itself Obsolete and has no linked,
\* non-obsolete Story, Task or Bug is not ready and carries NOSTORIES.
C11_NoChildrenNoStories ==
    (pc = "done" /\ NoLinkedWork /\ issues[0].Status # IssueStatusObsolete)
        => (~r.Ready /\ HasMessage(r, "NOSTORIES"))

\* C11 as stated: every Epic with no linked, non-obsolete Story, Task or Bug
\* is not ready and carries NOSTORIES.
C11_AsStated ==
    (pc = "done" /\ NoLinkedWork) => (~r.Ready /\ HasMessage(r, "NOSTORIES"))

\* an otherwise clean Epic whose only linked Story is Obsolete has been
\* evaluated: NOSTORIES is its one reason for not being ready
C11_Witness ==
    /\ pc = "done" /\ NoLinkedWork
    /\ issues[0].Status # IssueStatusObsolete
    /\ \E i \in LinkedPointers : issues[i].Type = "Story"
    /\ r.Messages = <<"NOSTORIES", "NOSTATUSCOMMENT">>

\* completion values to try checkDone with, besides those of the analysis
ProgressValues ==
    { [Total |-> 0, Status |-> 0, Unknown |-> 0],
      [Total |-> 2, Status |-> 2, Unknown |-> 0],
      [Total |-> 2, Status |-> 1, Unknown |-> 0],
      [Total |-> 3, Status |-> 3, Unknown |-> 1] }

\* the analysis reached, and the same analysis with other completion values
Analyses ==
    {a} \cup {[a EXCEPT !.IssuesCompletion = ic, !.PointsCompletion = pts] :
                 ic \in ProgressValues, pts \in ProgressValues}

Complete(an) ==
    /\ an.IssuesCompletion.Status = an.IssuesCompletion.Total
    /\ an.PointsCompletion.Status = an.PointsCompletion.Total

DoneEpic ==
    /\ pc = "done"
    /\ IsType(issues[0], IssueTypeEpic)
    /\ issues[0].Status = IssueStatusDone

\* C12 (as amended): a Done Epic with both completions complete gets status
\* GREEN when none of the rules that raise the status above GREEN fired:
\* approvals, delivery owner, QE assignee, acceptance criteria, priority,
\* impediment, multi-component, and no status comment says YELLOW or RED.
C12_CleanDoneIsGreen ==
    DoneEpic =>
        \A an \in Analyses :
            LET res == NewCheckResult(mem, an).r
            IN ( /\ Complete(an)
                 /\ \A m \in {"NOACKS", "NODELIVERYOWNER", "NOQEASSIGNEE", "NOCRITERIA",
                              "NOPRIORITY", "IMPEDIMENT", "MULTICOMPONENT"} :
                        ~HasMessage(res, m)
                 /\ an.CommentStatus <= CheckStatusGreen )
               => res.Status = CheckStatusGreen

\* C12 as stated: a Done Epic with both completions complete gets status
\* GREEN when no impediment, priority or approval rule fired.
C12_AsStated ==
    DoneEpic =>
        \A an \in Analyses :
            LET res == NewCheckResult(mem, an).r
            IN ( /\ Complete(an)
                 /\ \A m \in {"IMPEDIMENT", "NOPRIORITY", "NOACKS"} : ~HasMessage(res, m) )
               => res.Status = CheckStatusGreen

\* a Done Epic whose one linked Story is Done has been evaluated: it is
\* GREEN though not ready
C12_Witness ==
    /\ DoneEpic
    /\ Complete(a) /\ a.IssuesCompletion.Total = 1 /\ a.PointsCompletion.Total = 3
    /\ r.Status = CheckStatusGreen
    /\ ~r.Ready

\* C13: a Done Epic whose issue completion or whose point completion is
\* not complete gets status RED and the message NOTDONE, whatever else holds.
C13_IncompleteDoneIsRed ==
    DoneEpic =>
        \A an \in Analyses :
            LET res == NewCheckResult(mem, an).r
            IN ~Complete(an) =>
                  (res.Status = CheckStatusRed /\ HasMessage(res, "NOTDONE"))

\* a Done Epic with a linked issue that is not Done has been evaluated; NOTDONE
\* is the only rule that raised its status
C13_Witness ==
    /\ DoneEpic
    /\ a.IssuesCompletion.Status < a.IssuesCompletion.Total
    /\ r = [Ready |-> TRUE, Status |-> CheckStatusRed,
            Messages |-> <<"NOTDONE", "NOSTATUSCOMMENT">>]

\* severity a comment body signals by its first characters, 0 if none
Signalled(body) ==
    IF Len(body) >= 6 /\ SubSeq(body, 1, 6) = <<"G","R","E","E","N",":">> THEN 1
    ELSE IF Len(body) >= 7 /\ SubSeq(body, 1, 7) = <<"Y","E","L","L","O","W",":">> THEN 2
    ELSE IF Len(body) >= 4 /\ SubSeq(body, 1, 4) = <<"R","E","D",":">> THEN 3
    ELSE 0

\* what the most recent signalling comment of a list says, and when
LatestSignal(comments) ==
    LET signalling == {j \in 1..Len(comments) : Signalled(comments[j].Body) > 0}
    IN IF signalling = {}
       THEN [status |-> 0, date |-> [nil |-> TRUE, t |-> 0]]
       ELSE LET j == CHOOSE x \in signalling : \A y \in signalling : y <= x
            IN [status |-> Signalled(comments[j].Body),
                date |-> [nil |-> FALSE, t |-> comments[j].Updated]]

\* C14: for each issue the comment scan gives the severity and the update
\* time of the most recent comment that begins with GREEN:, YELLOW: or RED:,
\* and NONE with no date when there is none.
C14_LatestSignallingComment ==
    pc # "analyze" =>
        \A i \in DOMAIN issues :
            getIssueCommentStatus(issues[i]) = LatestSignal(issues[i].Comments)

\* an issue with an older RED: comment and a newer GREEN: one, and no linked
\* issue that signals, has been analysed as GREEN at the newer time
C14_Witness ==
    /\ pc = "done"
    /\ Len(issues[0].Comments) = 2
    /\ Signalled(issues[0].Comments[1].Body) = 3
    /\ Signalled(issues[0].Comments[2].Body) = 1
    /\ issues[0].Comments[1].Updated < issues[0].Comments[2].Updated
    /\ a.CommentStatus = CheckStatusGreen
    /\ a.CommentDate = TimeAt(issues[0].Comments[2].Updated)

\* an Epic with two components, evaluated for one component
TwoComponentEpicInScope ==
    /\ pc = "done"
    /\ IsType(issues[0], IssueTypeEpic)
    /\ ~component.nil
    /\ Len(issues[0].Components) = 2

\* C15 (as amended): an Epic that is not Obsolete, declares two components
\* and is analysed for one component is not ready, has status YELLOW or
\* RED, and carries MULTICOMPONENT.
C15_TwoComponentsInScope ==
    (TwoComponentEpicInScope /\ issues[0].Status # IssueStatusObsolete)
        => /\ HasMessage(r, "MULTICOMPONENT")
           /\ ~r.Ready
           /\ r.Status >= CheckStatusYellow

\* C15 as stated: every Epic that declares two components and is analysed
\* for one component is not ready, YELLOW or RED, and carries MULTICOMPONENT.
C15_AsStated ==
    TwoComponentEpicInScope
        => /\ HasMessage(r, "MULTICOMPONENT")
           /\ ~r.Ready
           /\ r.Status >= CheckStatusYellow

\* an otherwise clean Epic of two components has been evaluated for one of
\* them: MULTICOMPONENT alone makes it not ready and YELLOW
C15_Witness ==
    /\ TwoComponentEpicInScope
    /\ issues[0].Status # IssueStatusObsolete
    /\ r = [Ready |-> FALSE, Status |-> CheckStatusYellow,
            Messages |-> <<"MULTICOMPONENT", "NOSTATUSCOMMENT">>]

\* the issues whose comments are scanned, in scan order: the linked issues
\* in scope, in the order of the collection, then the evaluated issue.  In
\* scope are the linked issues that are not Obsolete and, when a component
\* was supplied, carry it; AnalyzeIssue takes an empty component name as
\* none and leaves Epics out of a component's scope.
ScanOrder ==
    LET Carries(i) == \E j \in 1..Len(issues[i].Components) :
                         issues[i].Components[j] = component.v
        InScope(i) ==
            /\ issues[i].Status # IssueStatusObsolete
            /\ IF pc = "assessed"
               THEN \/ component.nil
                    \/ component.v = ""
                    \/ Carries(i) /\ issues[i].Type # "Epic"
               ELSE component.nil \/ Carries(i)
    IN SelectSeq(Elems(mem, issues[0].LinkedIssues), InScope) \o <<0>>

\* what each scanned issue signals
ScanSignals == [j \in 1..Len(ScanOrder) |-> LatestSignal(issues[ScanOrder[j]].Comments)]

\* C16: commentStatus is the highest severity signalled along the scan, and
\* commentDate the date given by the first issue of the scan that signals
\* it; the date is absent exactly when the status is NONE.  This holds of
\* the analysis NewCheckResult reads and of AnalyzeIssue's, whose issues
\* signal by the prefixes that end with a space.
C16_HighestSeverityFirstWins ==
    pc \in {"check", "done", "assessed"} =>
        LET signals == [j \in 1..Len(ScanOrder) |->
                          IF pc = "assessed"
                          THEN getIssueCommentStatusWithSpace(issues[ScanOrder[j]])
                          ELSE ScanSignals[j]]
            top == CHOOSE x \in 0..3 :
                      /\ \E j \in 1..Len(ScanOrder) : signals[j].status = x
                      /\ \A j \in 1..Len(ScanOrder) : signals[j].status <= x
            first == CHOOSE j \in 1..Len(ScanOrder) :
                        /\ signals[j].status = top
                        /\ \A h \in 1..(j - 1) : signals[h].status < top
        IN /\ a.CommentStatus = top
           /\ a.CommentDate = signals[first].date
           /\ a.CommentDate.nil <=> (a.CommentStatus = CheckStatusNone)

\* a linked issue and the evaluated issue signal the same severity at
\* different times, and the analysis has the linked issue's date
C16_Witness ==
    /\ pc = "done"
    /\ Len(ScanOrder) = 2
    /\ ScanSignals[1].status > 0
    /\ ScanSignals[1].status = ScanSignals[2].status
    /\ ScanSignals[1].date # ScanSignals[2].date
    /\ a.CommentDate = ScanSignals[1].date

\* the evaluated issue has no priority: no priority object, an empty name,
\* or the name Unprioritized
PriorityUnset ==
    \/ issues[0].Priority.nil
    \/ issues[0].Priority.v \in {"", "Unprioritized"}

\* C17 as stated: for an issue that is not Obsolete the Priority rule fires
\* (not ready, RED, NOPRIORITY) exactly when the priority is unset or
\* Unprioritized, an issue without any priority value included.
C17_AsStated ==
    (pc = "done" /\ issues[0].Status # IssueStatusObsolete)
        => /\ HasMessage(r, "NOPRIORITY") <=> PriorityUnset
           /\ HasMessage(r, "NOPRIORITY") => (~r.Ready /\ r.Status = CheckStatusRed)

\* C17, what the code does: the rule fires exactly when there is a priority
\* object whose name is empty or Unprioritized.
C17_PriorityRuleOfTheCode ==
    (pc = "done" /\ issues[0].Status # IssueStatusObsolete)
        => /\ HasMessage(r, "NOPRIORITY")
                <=> (~issues[0].Priority.nil
                        /\ issues[0].Priority.v \in {"", "Unprioritized"})
           /\ HasMessage(r, "NOPRIORITY") => (~r.Ready /\ r.Status = CheckStatusRed)

\* an otherwise clean Epic without a priority object has been evaluated and
\* is ready, with no NOPRIORITY
C17_Witness ==
    /\ pc = "done"
    /\ issues[0].Priority.nil
    /\ issues[0].Status # IssueStatusObsolete
    /\ r = [Ready |-> TRUE, Status |-> CheckStatusNone, Messages |-> <<"NOSTATUSCOMMENT">>]

\* C18 as stated: for an issue that is not Obsolete the Impediment rule
\* fires (RED, IMPEDIMENT) exactly when its own flag is set or a linked
\* issue that is not Obsolete has it set.
C18_AsStated ==
    (pc = "done" /\ issues[0].Status # IssueStatusObsolete)
        => /\ HasMessage(r, "IMPEDIMENT")
                <=> \/ issues[0].Impediment
                    \/ \E i \in LinkedPointers :
                          /\ issues[i].Impediment
                          /\ issues[i].Status # IssueStatusObsolete
           /\ HasMessage(r, "IMPEDIMENT") => r.Status = CheckStatusRed

\* C18, what the code does: the rule fires exactly when the issue's own
\* flag is set or any linked issue, Obsolete or not, has it set.
C18_ImpedimentRuleOfTheCode ==
    (pc = "done" /\ issues[0].Status # IssueStatusObsolete)
        => /\ HasMessage(r, "IMPEDIMENT")
                <=> \/ issues[0].Impediment
                    \/ \E i \in LinkedPointers : issues[i].Impediment
           /\ HasMessage(r, "IMPEDIMENT") => r.Status = CheckStatusRed

\* an Epic without impediment whose only linked issue is Obsolete and
\* flagged has been evaluated: it is RED with IMPEDIMENT
C18_Witness ==
    /\ pc = "done"
    /\ ~issues[0].Impediment
    /\ LinkedPointers # {}
    /\ \A i \in LinkedPointers :
          issues[i].Impediment /\ issues[i].Status = IssueStatusObsolete
    /\ r.Status = CheckStatusRed
    /\ r.Messages = <<"NOSTORIES", "IMPEDIMENT", "NOACTIVESTORIES", "NOSTATUSCOMMENT">>

\* C19: the step of the QE assignee rule adds at most one message.  With
\* the no-quality flag, an assignee gives not ready and NOQEMISMATCH with the
\* status as it was, and no assignee changes nothing; without the flag, no
\* assignee gives not ready, RED and NOQEASSIGNEE, and an assignee changes
\* nothing.
C19_QEAssigneeRule ==
    [][ (pc = "rules" /\ order[k] = "checkQEAssignee") =>
            IF issues[0].Planning.NoQuality
            THEN IF issues[0].QEAssignee # ""
                 THEN r' = [Ready |-> FALSE, Status |-> r.Status,
                            Messages |-> Append(r.Messages, "NOQEMISMATCH")]
                 ELSE r' = r
            ELSE IF issues[0].QEAssignee = ""
                 THEN r' = [Ready |-> FALSE, Status |-> CheckStatusRed,
                            Messages |-> Append(r.Messages, "NOQEASSIGNEE")]
                 ELSE r' = r ]_vars

\* the rules have run in source order on an issue planned without quality
\* that has a QE assignee: NOQEMISMATCH, not ready, and no status from it
C19_Witness ==
    /\ pc = "done"
    /\ order = checks
    /\ issues[0].Planning.NoQuality /\ issues[0].QEAssignee # ""
    /\ r = [Ready |-> FALSE, Status |-> CheckStatusNone,
            Messages |-> <<"NOQEMISMATCH", "NOSTATUSCOMMENT">>]

\* the statuses in which an issue is being worked on
ActiveStatuses == {"In Progress", "Feature Complete", "Code Review", "QE Review"}

\* no linked issue of the evaluated issue, among those of the component when
\* one is given, is active or Done
NoneStartedInScope ==
    \A i \in LinkedPointers :
        ( \/ component.nil
          \/ \E j \in 1..Len(issues[i].Components) : issues[i].Components[j] = component.v )
        => issues[i].Status \notin (ActiveStatuses \cup {"Done"})

\* C20: the step of the Started-stories rule sets RED and adds
\* NOACTIVESTORIES, leaving ready alone, exactly when the issue is an Epic in
\* an active status and none of its linked issues in scope is active or
\* Done; otherwise it changes nothing.
C20_StartedStoriesRule ==
    [][ (pc = "rules" /\ order[k] = "checkStartedStories") =>
            IF /\ issues[0].Type = "Epic"
               /\ issues[0].Status \in ActiveStatuses
               /\ NoneStartedInScope
            THEN r' = [Ready |-> r.Ready, Status |-> CheckStatusRed,
                       Messages |-> Append(r.Messages, "NOACTIVESTORIES")]
            ELSE r' = r ]_vars

\* the rules have run in source order on an active Epic whose one linked
\* Story is not started: RED with NOACTIVESTORIES, and still ready
C20_Witness ==
    /\ pc = "done"
    /\ order = checks
    /\ issues[0].Status \in ActiveStatuses
    /\ LinkedPointers # {}
    /\ r = [Ready |-> TRUE, Status |-> CheckStatusRed,
            Messages |-> <<"NOACTIVESTORIES", "NOSTATUSCOMMENT">>]

\* the linked issues the analysis is scoped to: not Obsolete and, when a
\* component was supplied, carrying that component
ScopedPointers ==
    {i \in LinkedPointers :
        /\ issues[i].Status # IssueStatusObsolete
        /\ ~component.nil =>
              \E j \in 1..Len(issues[i].Components) :
                  issues[i].Components[j] = component.v}

\* the scoped linked issues of one of the given types
ScopedOfType(types) == {i \in ScopedPointers : issues[i].Type \in types}

LinkedWithoutComponent ==
    {i \in LinkedPointers :
        /\ issues[i].Status # IssueStatusObsolete
        /\ Len(issues[i].Components) = 0}

Occurrences(res, message) ==
    Cardinality({j \in 1..Len(res.Messages) : res.Messages[j] = message})

\* the fix-versions of the evaluated issue whose name starts with Alongside
AlongsideVersions ==
    {j \in 1..Len(issues[0].FixVersions) :
        IsPrefix(StrAlongside, issues[0].FixVersions[j])}

\* C23: each step of the loop over the rules adds at most one message, and
\* no code ever occurs twice in messages; ALONGSIDE occurs once however many
\* fix-versions start with Alongside, and NOVERSION and MULTIVERSION never
\* occur together.
C23_OneMessagePerRule ==
    [][ pc = "rules" =>
          /\ Len(r'.Messages) <= Len(r.Messages) + 1
          /\ \A j \in 1..Len(r'.Messages) : Occurrences(r', r'.Messages[j]) = 1
          /\ ~(HasMessage(r', "NOVERSION") /\ HasMessage(r', "MULTIVERSION")) ]_vars

\* an issue with two fix-versions that start with Alongside has been through
\* all the rules: ALONGSIDE is there once, with MULTIVERSION
C23_Witness ==
    /\ pc = "done"
    /\ Cardinality(AlongsideVersions) = 2
    /\ Occurrences(r, "ALONGSIDE") = 1
    /\ HasMessage(r, "MULTIVERSION")

\* the codes of the rules that make the result not ready
NotReadyCodes ==
    {"NOVERSION", "NOSTORIES", "NODESCRIPTION", "NOTREADY", "NODELIVERYOWNER",
     "NOQEMISMATCH", "NOQEASSIGNEE", "NOCRITERIA", "NOPRIORITY",
     "NOMARKETPROBLEM", "ISSUENOCOMPONENT", "MULTICOMPONENT", "NOEPIC",
     "NODESIGN"}

\* the codes of the rules that leave ready alone
ReadyNeutralCodes ==
    {"OBSOLETE", "ALONGSIDE", "MULTIVERSION", "NOACKS", "NOTSTARTED",
     "IMPEDIMENT", "NOTDONE", "NOACTIVESTORIES", "NOSTATUSCOMMENT"}

\* C27: the result of NewCheckResult is not ready exactly when its messages
\* hold one of the not-ready codes; every code is of one of the two kinds,
\* so the other codes alone leave the result ready.
C27_ReadyIffNotReadyCode ==
    pc = "done" =>
        /\ (~r.Ready <=> \E c \in NotReadyCodes : HasMessage(r, c))
        /\ \A j \in 1..Len(r.Messages) :
              r.Messages[j] \in NotReadyCodes \cup ReadyNeutralCodes

\* a result that carries NOACKS and NOTSTARTED and no not-ready code: it is
\* ready
C27_Witness ==
    /\ pc = "done"
    /\ HasMessage(r, "NOACKS")
    /\ HasMessage(r, "NOTSTARTED")
    /\ \A c \in NotReadyCodes : ~HasMessage(r, c)
    /\ r.Ready

\* the codes of the rules that set RED, and of those that set YELLOW
RedCodes ==
    {"NOACKS", "NODELIVERYOWNER", "NOQEASSIGNEE", "NOCRITERIA", "NOPRIORITY",
     "IMPEDIMENT", "NOTDONE", "NOACTIVESTORIES"}

YellowCodes == {"NOTSTARTED", "MULTICOMPONENT"}

\* the severities raised for a result: those of the rules whose code is in
\* messages, GREEN for an issue in Done status, and the comment status
Severities(res, an) ==
    {CheckStatusNone, an.CommentStatus}
        \cup (IF \E c \in RedCodes : HasMessage(res, c) THEN {CheckStatusRed} ELSE {})
        \cup (IF \E c \in YellowCodes : HasMessage(res, c) THEN {CheckStatusYellow} ELSE {})
        \cup (IF issues[0].Status = IssueStatusDone THEN {CheckStatusGreen} ELSE {})

\* status is RED exactly when a RED rule fired or the comment says RED, and
\* NONE exactly when no RED or YELLOW rule fired, the issue is not Done and
\* there is no status comment
StatusAsClaimed(res, an) ==
    /\ res.Status = CheckStatusRed <=>
          \/ \E c \in RedCodes : HasMessage(res, c)
          \/ an.CommentStatus = CheckStatusRed
    /\ res.Status = CheckStatusNone <=>
          /\ \A c \in RedCodes \cup YellowCodes : ~HasMessage(res, c)
          /\ issues[0].Status # IssueStatusDone
          /\ an.CommentStatus = CheckStatusNone
    /\ res.Status = CheckStatusNone =>
          \/ HasMessage(res, "NOSTATUSCOMMENT")
          \/ res.Messages = <<"OBSOLETE">>

\* C28 as stated: for every result the status is RED, or NONE, exactly under
\* the claimed conditions on messages, the Done status and commentStatus.
C28_AsStated == pc = "done" => StatusAsClaimed(r, a)

\* C28 (as amended): for an issue that is not Obsolete the status is the
\* maximum of the severities raised, RED and NONE exactly under the claimed
\* conditions; for an Obsolete issue the status is NONE and messages is
\* OBSOLETE alone, whatever commentStatus is.
C28_StatusIsMaxSeverity ==
    pc = "done" =>
        IF issues[0].Status = IssueStatusObsolete
        THEN r.Status = CheckStatusNone /\ r.Messages = <<"OBSOLETE">>
        ELSE /\ StatusAsClaimed(r, a)
             /\ r.Status \in Severities(r, a)
             /\ \A s \in Severities(r, a) : s <= r.Status

\* an issue that is not started and whose status comment says GREEN has been
\* evaluated: NOTSTARTED is the highest severity raised and the status is
\* YELLOW
C28_Witness ==
    /\ pc = "done"
    /\ issues[0].Status # IssueStatusObsolete
    /\ HasMessage(r, "NOTSTARTED")
    /\ a.CommentStatus = CheckStatusGreen
    /\ \A c \in RedCodes : ~HasMessage(r, c)
    /\ r.Status = CheckStatusYellow

\* the status-dependent codes that the result carries
StatusCodes(res) ==
    {c \in {"NOTSTARTED", "NOTDONE", "NOACTIVESTORIES"} : HasMessage(res, c)}

\* C29: a result carries at most one of NOTSTARTED, NOTDONE and
\* NOACTIVESTORIES: the first only for an issue neither active nor Done, the
\* second only for a Done issue, the third only for an active issue; and a
\* Done issue that is not Obsolete ends with status GREEN or higher.
C29_StatusCodesExclusive ==
    pc = "done" =>
        /\ Cardinality(StatusCodes(r)) <= 1
        /\ HasMessage(r, "NOTSTARTED") =>
              issues[0].Status \notin ActiveStatuses \cup {"Done"}
        /\ HasMessage(r, "NOTDONE") => issues[0].Status = "Done"
        /\ HasMessage(r, "NOACTIVESTORIES") => issues[0].Status \in ActiveStatuses
        /\ issues[0].Status = "Done" => r.Status >= CheckStatusGreen

\* an Epic that is not started and none of whose linked issues is started has
\* been evaluated: it carries NOTSTARTED and not NOACTIVESTORIES
C29_Witness ==
    /\ pc = "done"
    /\ issues[0].Type = "Epic"
    /\ LinkedPointers # {}
    /\ NoneStartedInScope
    /\ StatusCodes(r) = {"NOTSTARTED"}

\* the names of the entries of Items, in order
ItemNames(c) == [j \in 1..Len(c.Items) |-> c.objs[c.Items[j]].Name]

\* no two entries of Items have the same name, and index maps exactly the
\* names of Items, each to the entry of Items with that name
OrderedAndUnique(c) ==
    /\ \A i, j \in 1..Len(c.Items) :
          ItemNames(c)[i] = ItemNames(c)[j] => i = j
    /\ DOMAIN c.index = {ItemNames(c)[j] : j \in 1..Len(c.Items)}
    /\ \A j \in 1..Len(c.Items) : c.index[ItemNames(c)[j]] = c.Items[j]

\* C26: after every Add and AddIssues call the collection is ordered and
\* unique, the entries Items had keep their positions and names, and an Add
\* on a component that exists changes nothing but the Issues of its entry,
\* which grow by the issues given.
C26_OrderedAndUnique ==
    [][ /\ OrderedAndUnique(cc')
        /\ Len(cc'.Items) >= Len(cc.Items)
        /\ \A j \in 1..Len(cc.Items) :
              /\ cc'.Items[j] = cc.Items[j]
              /\ ItemNames(cc')[j] = ItemNames(cc)[j]
        /\ (call'.op = "Add" /\ call'.component \in DOMAIN cc.index) =>
              /\ cc'.Items = cc.Items
              /\ cc'.index = cc.index
              /\ cc'.Orphans = cc.Orphans
              /\ cc'.objs = [cc.objs EXCEPT ![cc.index[call'.component]].Issues =
                                               @ \o call'.issues] ]_vars

\* Add has just been called with an issue for the component that is first of
\* two in Items: the entry is still first and holds more than that issue
C26_Witness ==
    /\ Len(cc.Items) = 2
    /\ call.op = "Add"
    /\ call.component = ItemNames(cc)[1]
    /\ call.issues = <<0>>
    /\ Len(cc.objs[cc.Items[1]].Issues) >= 2

\* the Epics among the issues the first search returns, by key
EpicKeys ==
    {Keys[j] : j \in {x \in 1..Len(jira.search.issues) :
                         jira.search.issues[x].Type = "Epic"}}

\* every goroutine has sent its result and ended
AllGoroutinesDone == \A g \in DOMAIN goroutines : goroutines[g].pc = "done"

\* C24: no goroutine ever sends on the closed channel; when FindEpics
\* returns after a successful search, and when the channel is closed, there
\* is one goroutine per Epic found, FindEpics has received as many results
\* as there are goroutines and every goroutine has sent its one result and
\* ended; and no step after the return writes to an issue.
C24_ReturnsAfterEveryResult ==
    [][ /\ \A g \in DOMAIN goroutines' : goroutines'[g].pc # "panic"
        /\ ((fe'.pc = "returned" /\ ~jira'.search.err) \/ ch'.closed) =>
              /\ AllGoroutinesDone'
              /\ fe'.n = Len(goroutines')
              /\ {issues'[goroutines'[g].i].Key : g \in DOMAIN goroutines'} = EpicKeys'
              /\ Len(goroutines') = Cardinality(EpicKeys')
        /\ fe.pc = "returned" => issues' = issues ]_vars

\* FindEpics has returned from two goroutines, one whose fetch failed and one
\* that wrote the linked issues of its Epic; the channel is closed
C24_Witness ==
    /\ fe.pc = "returned"
    /\ ch.closed
    /\ Len(goroutines) = 2
    /\ AllGoroutinesDone
    /\ \E g \in DOMAIN goroutines : goroutines[g].err # ErrNil
    /\ \E g \in DOMAIN goroutines : issues[goroutines[g].i].LinkedIssues.len > 0

\* the addLinkedIssues call for the Epic of this key fails: a search fails,
\* or there is more than one Market Problem
FetchFails(key) ==
    LET answer == jira.epics[key]
    IN \/ answer.problems.err
       \/ answer.problems.n > 1
       \/ answer.problems.n = 1 /\ answer.inEpic.err

\* the first search, or the fetch for some Epic, fails
SomeFetchFails == jira.search.err \/ \E key \in EpicKeys : FetchFails(key)

\* C25: FindEpics returns a non-nil error exactly when the first search or
\* the fetch for at least one Epic fails; and then main does not get past
\* FindEpics except to panic: no issue is grouped under a component or among
\* the orphans, and nothing is analysed or written.
C25_FetchFailureIsFatal ==
    /\ fe.pc = "returned" => (fe.ret.err # ErrNil <=> SomeFetchFails)
    /\ SomeFetchFails =>
          /\ pc \in {"include", "find", "panic"}
          /\ cc.Orphans = <<>>
          /\ \A j \in 1..Len(cc.objs) : cc.objs[j].Issues = <<>>
          /\ a = NoAnalysis
          /\ r = EmptyResult

\* main, whose profile includes a component, has panicked on
\* ErrMultipleIssues for one Epic after the linked issues of another Epic had
\* been fetched: the included component is there, with no issue
C25_Witness ==
    /\ pc = "panic"
    /\ fe.ret.err = ErrMultipleIssues
    /\ \E g \in DOMAIN goroutines :
          /\ goroutines[g].err = ErrNil
          /\ issues[goroutines[g].i].LinkedIssues.len > 0
    /\ ItemNames(cc) = <<"B">>
    /\ cc.objs[cc.Items[1]].Issues = <<>>
    /\ cc.Orphans = <<>>

\* the issues FindEpics returned
ReturnedPointers == {Elems(mem, fe.ret.issues)[j] : j \in 1..fe.ret.issues.len}

\* C30: addLinkedIssues runs for Epics only, searches the issues in the epic
\* only when exactly one Market Problem was found, and an issue has linked
\* issues only if its Market Problem is set; so after a successful
\* FindEpics a nil MarketProblem implies an empty LinkedIssues, and every
\* Epic main evaluates that gets NOMARKETPROBLEM also gets NOSTORIES.
C30_NoMarketProblemNoLinkedIssues ==
    /\ \A g \in DOMAIN goroutines :
          LET i == goroutines[g].i
              problems == jira.epics[issues[i].Key].problems
          IN /\ issues[i].Type = "Epic"
             /\ (goroutines[g].pc = "linked" \/ issues[i].LinkedIssues.len > 0) =>
                   /\ ~problems.err /\ problems.n = 1
                   /\ ~issues[i].MarketProblem.nil
    /\ \A i \in DOMAIN issues :
          issues[i].LinkedIssues.len > 0 => ~issues[i].MarketProblem.nil
    /\ (fe.pc = "returned" /\ fe.ret.err = ErrNil) =>
          \A i \in ReturnedPointers :
              issues[i].MarketProblem.nil => issues[i].LinkedIssues.len = 0
    /\ (pc \in {"write", "exit", "nil dereference"} /\ k > 0
            /\ issues[a.Issue].Type = "Epic"
            /\ HasMessage(r, "NOMARKETPROBLEM"))
          => HasMessage(r, "NOSTORIES")

\* main has evaluated an Epic for which no Market Problem was found while
\* the server holds issues in the epic: they were not fetched, and the Epic
\* gets NOMARKETPROBLEM and NOSTORIES
C30_Witness ==
    /\ pc = "write" /\ k > 0
    /\ issues[a.Issue].Type = "Epic"
    /\ jira.epics[issues[a.Issue].Key].problems.n = 0
    /\ ~jira.epics[issues[a.Issue].Key].problems.err
    /\ Len(jira.epics[issues[a.Issue].Key].inEpic.issues) > 0
    /\ issues[a.Issue].LinkedIssues.len = 0
    /\ HasMessage(r, "NOMARKETPROBLEM") /\ HasMessage(r, "NOSTORIES")

====
